---- MODULE Spec2Model ----
(***************************************************************************)
(* The hyber widget tree, its layout / dirty-rebuild pass, the render      *)
(* instruction collection, the absolute (overlay) widget collection and    *)
(* the renderer's event loop, as a state machine.                          *)
(*                                                                         *)
(* Widgets live in an arena indexed by name.  A parent's `children` vector *)
(* holds Weak references: a reference resolves (upgrade() is Some) exactly *)
(* while the widget's owner still holds it (`alive`).                      *)
(* Colours and font sizes are construction-time configuration that no      *)
(* operation changes; they are left out of the instruction records.        *)
(***************************************************************************)
EXTENDS Integers, Sequences, FiniteSets, TLC

(***************************************************************************)
(* Bounds of the model                                                     *)
(***************************************************************************)
\* the button receives at most this many events
MaxButtonEvents == 3
\* the clock runs up to this many milliseconds
MaxClock == 600
\* the display delivers at most this many events in all
MaxEvents == 2
\* the display delivers at most this many events to one iteration of the loop
MaxBatch == 2
\* width (in bits) of the modelled usize
UsizeBits == 6
\* the number of events the display delivers in a long run, one per iteration
MaxLongRun == 18
\* a grid is built at most this many times
MaxGridBuilds == 3
\* the slider receives at most this many events
MaxSliderEvents == 4
\* the button of the press sequences receives at most this many calls
MaxPressEvents == 5
\* the tab receives at most this many events
MaxTabEvents == 3
\* the check box receives at most this many calls
MaxCheckBoxEvents == 5

Modulus == 2 ^ UsizeBits
UsizeMax == Modulus - 1

(***************************************************************************)
(* util.rs: Vector2D                                                       *)
(***************************************************************************)
Vec(a, b) == [x |-> a, y |-> b]

Min(a, b) == IF a <= b THEN a ELSE b

\* Vector2D::min, component-wise
VMin(a, b) == Vec(Min(a.x, b.x), Min(a.y, b.y))

\* impl Add for Vector2D
VAdd(a, b) == Vec(a.x + b.x, a.y + b.y)

\* impl Mul<usize> for Vector2D
VScale(a, k) == Vec(a.x * k, a.y * k)

\* usize subtraction as a release build computes it (wrapping)
WrapSub(a, b) == (a - b) % Modulus

\* impl SubAssign for Vector2D, wrapping
VSub(a, b) == Vec(WrapSub(a.x, b.x), WrapSub(a.y, b.y))

\* whether a - b leaves the range of usize in some component
VSubUnderflows(a, b) == a.x < b.x \/ a.y < b.y

None == [some |-> FALSE, v |-> Vec(0, 0)]
Some(v) == [some |-> TRUE, v |-> v]

(***************************************************************************)
(* The widget arena                                                        *)
(*                                                                         *)
(*   root (RootWidget, horizontal)                                         *)
(*     |- box  (LabelWidget with a child and an offset)  - l1 (LabelWidget)*)
(*     |- view (TooltipViewWidget, vertical)             - l2 (LabelWidget)*)
(*     `- l3   (LabelWidget)                                               *)
(*   tip  (LabelWidget): the tooltip_widget of view, outside the tree      *)
(*   copy : the slot in which a clone of a label is created                *)
(***************************************************************************)
Widgets == {"root", "box", "view", "l1", "l2", "l3", "tip", "copy"}

Texts == {"0", "1"}

\* the sizes the toolkit user gives to widgets
UserSizes == {Vec(1, 1), Vec(3, 2)}

\* the display's size handed to event_loop
DisplaySize == Vec(5, 3)

\* the cursor positions the display reports
Points == {Vec(0, 0), Vec(3, 2)}

\* the offsets a label is constructed with
Offsets == {Vec(0, 0), Vec(1, 1)}

VARIABLES
    widgets,            \* arena: widget name -> widget struct
    idm,                \* IDMachine.id
    ric,                \* RenderInstructionCollection.pairs : id -> instructions
    awc,                \* AbsoluteWidgetCollection: [counter, widgets]
    events,             \* Queue<Event>
    messages,           \* Queue<Box<dyn Message>>
    pc,                 \* position inside one iteration of event_loop
    overflow_checks,    \* the build profiles the run so far is consistent with:
                        \* TRUE panics on usize overflow, FALSE wraps
    build_log,          \* calls made by the build pass of this iteration, in order
    delivered,          \* number of events the display has delivered so far
    issued,             \* every value fetch_id has returned, in order
    event_log,          \* on_event calls made by the dispatch of this iteration, in order
    display_open,       \* what Display::is_open would return
    button,             \* a ButtonViewWidget that is not part of the tree
    now,                \* the monotonic clock read by Instant::now(), in ms
    call,               \* the last call made on a value on its own, with what it returned
    slider,             \* a SliderWidget that is not part of the tree
    tab,                \* a TabWidget that is not part of the tree
    checkbox            \* a CheckBoxWidget that is not part of the tree

vars == <<widgets, idm, ric, awc, events, messages, pc, overflow_checks, build_log,
          delivered, issued, event_log, display_open, button, now,
          call, slider, tab, checkbox>>

\* LabelWidget::new: id 0, dirty, position (0,0), original_size = size, no clip
NewLabel(text, size, offset, kids) ==
    [kind |-> "label", alive |-> TRUE, id |-> 0, dirty |-> TRUE,
     position |-> Vec(0, 0), size |-> size, original_size |-> size,
     axis |-> "Horizontal", offset |-> offset, children |-> kids,
     text |-> text, clip_point |-> None, clip_size |-> None,
     cursor_pos |-> Vec(-1, -1), tooltip_widget |-> "none"]

\* RootWidget::new
NewRoot(size, axis, kids) ==
    [kind |-> "root", alive |-> TRUE, id |-> 0, dirty |-> TRUE,
     position |-> Vec(0, 0), size |-> size, original_size |-> size,
     axis |-> axis, offset |-> Vec(0, 0), children |-> kids,
     text |-> "", clip_point |-> None, clip_size |-> None,
     cursor_pos |-> Vec(-1, -1), tooltip_widget |-> "none"]

\* TooltipViewWidget::new: layout Box(Vertical), cursor_pos (-1,-1)
NewTooltipView(size, tip, kids) ==
    [kind |-> "tooltip_view", alive |-> TRUE, id |-> 0, dirty |-> TRUE,
     position |-> Vec(0, 0), size |-> size, original_size |-> size,
     axis |-> "Vertical", offset |-> Vec(0, 0), children |-> kids,
     text |-> "", clip_point |-> None, clip_size |-> None,
     cursor_pos |-> Vec(-1, -1), tooltip_widget |-> tip]

\* a slot of the arena in which no widget has been created yet
FreeSlot == [NewLabel("0", Vec(0, 0), Vec(0, 0), <<>>) EXCEPT !.alive = FALSE]

\* Weak::upgrade() is Some
Resolves(ws, w) == w \in Widgets /\ ws[w].alive

(***************************************************************************)
(* renderer.rs: RenderInstructionCollection (a BTreeMap) and               *)
(* AbsoluteWidgetCollection (a counter and a HashMap)                      *)
(***************************************************************************)
EmptyMap == [k \in {} |-> {}]

\* an insert that keeps the instructions of a key that is already there
MapInsertIfAbsent(m, k, v) ==
    [j \in (DOMAIN m) \cup {k} |-> IF j \in DOMAIN m THEN m[j] ELSE v]

\* RenderInstructionCollection::replace_or_insert, also HashMap::insert
MapInsert(m, k, v) == [j \in (DOMAIN m) \cup {k} |-> IF j = k THEN v ELSE m[j]]

\* a remove that splits the map at the key and keeps the lower part
MapSplitOff(m, k) == [j \in {i \in DOMAIN m : i < k} |-> m[j]]

\* RenderInstructionCollection::remove, also HashMap::remove
MapRemove(m, k) == [j \in (DOMAIN m) \ {k} |-> m[j]]

\* the smallest key of a non-empty map
FirstKey(m) == CHOOSE k \in DOMAIN m : \A j \in DOMAIN m : k <= j

RECURSIVE Iter(_)
\* pairs.iter(): the entries of the BTreeMap, by ascending key
Iter(m) ==
    IF DOMAIN m = {} THEN << >>
    ELSE LET k == FirstKey(m)
         IN <<[key |-> k, instructions |-> m[k]]>> \o Iter(MapRemove(m, k))

\* Option<V> as a sequence: None is empty, Some(v) has the one element v
Lookup(m, k) == IF k \in DOMAIN m THEN <<m[k]>> ELSE << >>

\* a collection whose counter starts at 0
NewAbsoluteFromZero == [counter |-> 0, widgets |-> EmptyMap]

\* AbsoluteWidgetCollection::new
NewAbsolute == [counter |-> UsizeMax, widgets |-> EmptyMap]

\* an insert that leaves the counter where it is
AbsoluteInsertKeepsCounter(a, ws, w, position, size) ==
    IF Resolves(ws, w)
    THEN [awc |-> [counter |-> a.counter,
                   widgets |-> MapInsert(a.widgets, a.counter,
                                         [widget |-> w, position |-> position, size |-> size])],
          ws |-> [ws EXCEPT ![w].id = a.counter]]
    ELSE [awc |-> a, ws |-> ws]

\* AbsoluteWidgetCollection::insert: returns the collection and the arena
AbsoluteInsert(a, ws, w, position, size) ==
    IF Resolves(ws, w)
    THEN [awc |-> [counter |-> WrapSub(a.counter, 1),
                   widgets |-> MapInsert(a.widgets, a.counter,
                                         [widget |-> w, position |-> position, size |-> size])],
          ws |-> [ws EXCEPT ![w].id = a.counter]]
    ELSE [awc |-> a, ws |-> ws]

\* AbsoluteWidgetCollection::remove
AbsoluteRemove(a, id) == [a EXCEPT !.widgets = MapRemove(a.widgets, id)]

\* IDMachine::new
NewIDMachine == [id |-> 0]

\* a fetch_id that counts in steps of two
FetchIdByTwo(m) ==
    LET next == [m EXCEPT !.id = (m.id + 2) % Modulus]
    IN [machine |-> next, returned |-> next.id]

\* a fetch_id that hands out the counter before incrementing it
FetchIdPostIncrement(m) ==
    [machine |-> [m EXCEPT !.id = (m.id + 1) % Modulus], returned |-> m.id]

\* IDMachine::fetch_id: the machine after the call and the value returned
FetchId(m) ==
    LET next == [m EXCEPT !.id = (m.id + 1) % Modulus]
    IN [machine |-> next, returned |-> next.id]

(***************************************************************************)
(* Widget trait, per widget kind                                           *)
(***************************************************************************)
\* recipe()
Recipe(wd) ==
    CASE wd.kind = "root" -> << [op |-> "Clear"] >>
      [] wd.kind = "label" ->
            LET clip_point == IF wd.clip_point.some THEN wd.clip_point.v ELSE wd.position
                clip_size == IF wd.clip_size.some THEN wd.clip_size.v ELSE wd.size
            IN << [op |-> "DrawRect", point |-> wd.position, size |-> wd.size,
                   clip_point |-> clip_point, clip_size |-> clip_size],
                  [op |-> "DrawText",
                   point |-> Vec(wd.position.x, wd.position.y + wd.size.y),
                   string |-> wd.text,
                   clip_point |-> clip_point, clip_size |-> clip_size] >>
      [] OTHER -> << >>

RECURSIVE SetDirty(_, _, _)
RECURSIVE MarkChildren(_, _)

\* the loop of the containers' set_dirty(true): mark the resolvable children in
\* order, stopping at the first one that is already dirty
MarkChildren(ws, kids) ==
    IF kids = << >> THEN ws
    ELSE LET c == Head(kids) IN
         IF ~Resolves(ws, c) THEN MarkChildren(ws, Tail(kids))
         ELSE IF ws[c].dirty THEN ws
         ELSE MarkChildren(SetDirty(ws, c, TRUE), Tail(kids))

\* set_dirty(value)
SetDirty(ws, w, value) ==
    IF ws[w].kind = "tooltip_view" /\ value
    THEN MarkChildren([ws EXCEPT ![w].dirty = TRUE], ws[w].children)
    ELSE [ws EXCEPT ![w].dirty = value]

\* a set_position with an empty body, as the root's
SetPositionEmpty(ws, w, position) == ws

\* set_position(position)
SetPosition(ws, w, position) ==
    IF ws[w].kind = "root" THEN ws ELSE [ws EXCEPT ![w].position = position]

\* a set_size that marks the widget only when the size changes
SetSizeIfChanged(ws, w, size) ==
    IF ws[w].size = size THEN ws
    ELSE [ws EXCEPT ![w].dirty = TRUE, ![w].size = size]

\* set_size(size)
SetSize(ws, w, size) ==
    IF ws[w].kind = "tooltip_view"
    THEN [SetDirty(ws, w, TRUE) EXCEPT ![w].size = size]
    ELSE [ws EXCEPT ![w].dirty = TRUE, ![w].size = size]

\* set_original_size(size)
SetOriginalSize(ws, w, size) ==
    IF ws[w].kind = "tooltip_view"
    THEN [SetDirty(ws, w, TRUE) EXCEPT ![w].original_size = size]
    ELSE [ws EXCEPT ![w].dirty = TRUE, ![w].original_size = size]

\* set_offset(offset)
SetOffset(ws, w, offset) ==
    IF ws[w].kind = "label" THEN [ws EXCEPT ![w].offset = offset] ELSE ws

\* the offset get_fields() returns
FieldsOffset(wd) == IF wd.kind = "label" THEN wd.offset ELSE Vec(0, 0)

(***************************************************************************)
(* widget.rs: Widget::build                                                *)
(*                                                                         *)
(* A build state holds what the pass reads and writes: the arena, the      *)
(* IDMachine, the instruction collection, the build profile (checks),      *)
(* whether a usize operation has left the range of usize (underflow),      *)
(* whether the pass has panicked, and the log of the calls made so far.    *)
(***************************************************************************)
\* the block of build() guarded by self.is_dirty(); `self.id += 1` in fetch_id
\* panics in a build with overflow checks when the counter is at usize::MAX
\* a dirty block that leaves the instructions under the old id in place
BuildSelfKeepsOldEntry(bs, w, position, max) ==
    LET ws1 == SetSize(SetPosition(bs.ws, w, position), w, max)
        overflows == bs.idm.id = UsizeMax
        fetched == FetchId(bs.idm)
        ws2 == [ws1 EXCEPT ![w].id = fetched.returned]
        ric2 == MapInsert(bs.ric, ws2[w].id, Recipe(ws2[w]))
    IN IF overflows /\ bs.checks
       THEN [bs EXCEPT !.ws = ws1, !.underflow = TRUE, !.panic = TRUE]
       ELSE [bs EXCEPT !.ws = SetDirty(ws2, w, FALSE), !.idm = fetched.machine,
                       !.ric = ric2, !.issued = Append(@, fetched.returned),
                       !.underflow = @ \/ overflows]

BuildSelf(bs, w, position, max) ==
    LET ws1 == SetSize(SetPosition(bs.ws, w, position), w, max)
        ric1 == MapRemove(bs.ric, ws1[w].id)
        overflows == bs.idm.id = UsizeMax
        fetched == FetchId(bs.idm)
        ws2 == [ws1 EXCEPT ![w].id = fetched.returned]
        ric2 == MapInsert(ric1, ws2[w].id, Recipe(ws2[w]))
    IN IF overflows /\ bs.checks
       THEN [bs EXCEPT !.ws = ws1, !.ric = ric1, !.underflow = TRUE, !.panic = TRUE]
       ELSE [bs EXCEPT !.ws = SetDirty(ws2, w, FALSE), !.idm = fetched.machine,
                       !.ric = ric2, !.issued = Append(@, fetched.returned),
                       !.underflow = @ \/ overflows]

RECURSIVE Build(_, _, _, _)
RECURSIVE BuildChildren(_, _, _, _, _, _)

\* a child loop in which a force-marked child does not pass the mark on
BuildChildrenNoCarry(bs, kids, axis, position, max, children_dirty) ==
    IF kids = << >> \/ bs.panic THEN bs
    ELSE LET c == Head(kids) IN
         IF ~Resolves(bs.ws, c)
         THEN BuildChildren(bs, Tail(kids), axis, position, max, children_dirty)
         ELSE LET ws1 == IF children_dirty THEN SetDirty(bs.ws, c, TRUE) ELSE bs.ws
                  child_size == VMin(ws1[c].size, max)
                  visit == [op |-> "visit", w |-> c, position |-> position,
                            avail |-> max, size |-> child_size,
                            dirty |-> bs.ws[c].dirty, forced |-> children_dirty]
                  bs1 == [bs EXCEPT !.ws = ws1, !.log = Append(@, visit)]
                  bs2 == Build(bs1, c, position, child_size)
              IN IF axis = "Horizontal"
                 THEN BuildChildren(bs2, Tail(kids), axis,
                                    Vec(position.x + child_size.x, position.y),
                                    Vec(max.x - child_size.x, max.y), bs.ws[c].dirty)
                 ELSE BuildChildren(bs2, Tail(kids), axis,
                                    Vec(position.x, position.y + child_size.y),
                                    Vec(max.x, max.y - child_size.y), bs.ws[c].dirty)

\* a loop over the children that ends at the first child that does not resolve
BuildChildrenStopAtDropped(bs, kids, axis, position, max, children_dirty) ==
    IF kids = << >> \/ bs.panic THEN bs
    ELSE LET c == Head(kids) IN
         IF ~Resolves(bs.ws, c)
         THEN bs
         ELSE LET ws1 == IF children_dirty THEN SetDirty(bs.ws, c, TRUE) ELSE bs.ws
                  now_dirty == children_dirty \/ bs.ws[c].dirty
                  child_size == VMin(ws1[c].size, max)
                  visit == [op |-> "visit", w |-> c, position |-> position,
                            avail |-> max, size |-> child_size,
                            dirty |-> bs.ws[c].dirty, forced |-> children_dirty]
                  bs1 == [bs EXCEPT !.ws = ws1, !.log = Append(@, visit)]
                  bs2 == Build(bs1, c, position, child_size)
              IN IF axis = "Horizontal"
                 THEN BuildChildren(bs2, Tail(kids), axis,
                                    Vec(position.x + child_size.x, position.y),
                                    Vec(max.x - child_size.x, max.y), now_dirty)
                 ELSE BuildChildren(bs2, Tail(kids), axis,
                                    Vec(position.x, position.y + child_size.y),
                                    Vec(max.x, max.y - child_size.y), now_dirty)

\* the loop of build() over the children: `kids` are the children still to
\* visit, `position` and `max` the running position and remaining size
BuildChildren(bs, kids, axis, position, max, children_dirty) ==
    IF kids = << >> \/ bs.panic THEN bs
    ELSE LET c == Head(kids) IN
         IF ~Resolves(bs.ws, c)
         THEN BuildChildren(bs, Tail(kids), axis, position, max, children_dirty)
         ELSE LET ws1 == IF children_dirty THEN SetDirty(bs.ws, c, TRUE) ELSE bs.ws
                  now_dirty == children_dirty \/ bs.ws[c].dirty
                  child_size == VMin(ws1[c].size, max)
                  visit == [op |-> "visit", w |-> c, position |-> position,
                            avail |-> max, size |-> child_size,
                            dirty |-> bs.ws[c].dirty, forced |-> children_dirty]
                  bs1 == [bs EXCEPT !.ws = ws1, !.log = Append(@, visit)]
                  bs2 == Build(bs1, c, position, child_size)
              IN IF axis = "Horizontal"
                 THEN BuildChildren(bs2, Tail(kids), axis,
                                    Vec(position.x + child_size.x, position.y),
                                    Vec(max.x - child_size.x, max.y), now_dirty)
                 ELSE BuildChildren(bs2, Tail(kids), axis,
                                    Vec(position.x, position.y + child_size.y),
                                    Vec(max.x, max.y - child_size.y), now_dirty)

\* a build that returns at once when the widget itself is clean
BuildSkipClean(bs, w, position, max) ==
    LET entry == [op |-> "build", w |-> w, position |-> position,
                  avail |-> max, size |-> max,
                  dirty |-> bs.ws[w].dirty, forced |-> FALSE]
        bs0 == [bs EXCEPT !.log = Append(@, entry)]
        bs1 == BuildSelf(bs0, w, position, max)
        wd == bs1.ws[w]
        offset == FieldsOffset(wd)
        twice == VScale(offset, 2)
        bs2 == IF VSubUnderflows(max, twice) THEN [bs1 EXCEPT !.underflow = TRUE] ELSE bs1
    IN IF ~bs.ws[w].dirty THEN bs0
       ELSE IF bs1.panic THEN bs1
       ELSE IF VSubUnderflows(max, twice) /\ bs.checks
       THEN [bs2 EXCEPT !.panic = TRUE]
       ELSE BuildChildren(bs2, wd.children, wd.axis,
                          VAdd(position, offset), VSub(max, twice), FALSE)

\* a build that runs the dirty block whether the widget is dirty or not
BuildAlways(bs, w, position, max) ==
    LET entry == [op |-> "build", w |-> w, position |-> position,
                  avail |-> max, size |-> max,
                  dirty |-> bs.ws[w].dirty, forced |-> FALSE]
        bs0 == [bs EXCEPT !.log = Append(@, entry)]
        bs1 == BuildSelf(bs0, w, position, max)
        wd == bs1.ws[w]
        offset == FieldsOffset(wd)
        twice == VScale(offset, 2)
        bs2 == IF VSubUnderflows(max, twice) THEN [bs1 EXCEPT !.underflow = TRUE] ELSE bs1
    IN IF bs1.panic THEN bs1
       ELSE IF VSubUnderflows(max, twice) /\ bs.checks
       THEN [bs2 EXCEPT !.panic = TRUE]
       ELSE BuildChildren(bs2, wd.children, wd.axis,
                          VAdd(position, offset), VSub(max, twice), FALSE)

\* Widget::build(position, max, id_machine, instruction_collection)
Build(bs, w, position, max) ==
    LET entry == [op |-> "build", w |-> w, position |-> position,
                  avail |-> max, size |-> max,
                  dirty |-> bs.ws[w].dirty, forced |-> FALSE]
        bs0 == [bs EXCEPT !.log = Append(@, entry)]
        bs1 == IF bs0.ws[w].dirty THEN BuildSelf(bs0, w, position, max) ELSE bs0
        wd == bs1.ws[w]
        offset == FieldsOffset(wd)
        twice == VScale(offset, 2)
        bs2 == IF VSubUnderflows(max, twice) THEN [bs1 EXCEPT !.underflow = TRUE] ELSE bs1
    IN IF bs1.panic THEN bs1
       ELSE IF VSubUnderflows(max, twice) /\ bs.checks
       THEN [bs2 EXCEPT !.panic = TRUE]
       ELSE BuildChildren(bs2, wd.children, wd.axis,
                          VAdd(position, offset), VSub(max, twice), FALSE)

(***************************************************************************)
(* event.rs: the events the display delivers; on_event per widget kind     *)
(***************************************************************************)
KeyPressed(k) == [kind |-> "KeyPressed", key |-> k, x |-> 0, y |-> 0]
CursorMoved(p) == [kind |-> "CursorMoved", key |-> "", x |-> p.x, y |-> p.y]

\* the events detect_display_events may enqueue
Events == {KeyPressed("I"), KeyPressed("D")} \cup {CursorMoved(p) : p \in Points}

\* TooltipViewWidget::is_mouse_inside
IsMouseInside(wd) ==
    /\ wd.cursor_pos.x >= wd.position.x
    /\ wd.cursor_pos.x <= wd.position.x + wd.size.x
    /\ wd.cursor_pos.y >= wd.position.y
    /\ wd.cursor_pos.y <= wd.position.y + wd.size.y

\* a CursorMoved arm that does not look at the tooltip widget's id before it
\* inserts
TooltipCursorMovedInsertsAlways(es, w, event) ==
    LET ws1 == [es.ws EXCEPT ![w].cursor_pos = Vec(event.x, event.y)]
        tip == ws1[w].tooltip_widget
    IN IF IsMouseInside(ws1[w])
       THEN IF Resolves(ws1, tip)
            THEN LET ws2 == SetDirty(ws1, tip, TRUE)
                     ins == AbsoluteInsert(es.awc, ws2, tip, ws2[w].cursor_pos,
                                           ws2[tip].original_size)
                 IN [es EXCEPT !.ws = ins.ws, !.awc = ins.awc]
            ELSE [es EXCEPT !.ws = ws1]
       ELSE IF Resolves(ws1, tip)
            THEN [es EXCEPT !.ws = [ws1 EXCEPT ![tip].id = 0],
                            !.ric = MapRemove(es.ric, ws1[tip].id),
                            !.awc = AbsoluteRemove(es.awc, ws1[tip].id)]
            ELSE [es EXCEPT !.ws = ws1]

\* TooltipViewWidget::on_event, CursorMoved arm, before the event is forwarded:
\* show the tooltip widget when the cursor is inside, hide it otherwise
TooltipCursorMoved(es, w, event) ==
    LET ws1 == [es.ws EXCEPT ![w].cursor_pos = Vec(event.x, event.y)]
        tip == ws1[w].tooltip_widget
    IN IF IsMouseInside(ws1[w])
       THEN IF Resolves(ws1, tip) /\ ws1[tip].id = 0
            THEN LET ws2 == SetDirty(ws1, tip, TRUE)
                     ins == AbsoluteInsert(es.awc, ws2, tip, ws2[w].cursor_pos,
                                           ws2[tip].original_size)
                 IN [es EXCEPT !.ws = ins.ws, !.awc = ins.awc]
            ELSE [es EXCEPT !.ws = ws1]
       ELSE IF Resolves(ws1, tip)
            THEN [es EXCEPT !.ws = [ws1 EXCEPT ![tip].id = 0],
                            !.ric = MapRemove(es.ric, ws1[tip].id),
                            !.awc = AbsoluteRemove(es.awc, ws1[tip].id)]
            ELSE [es EXCEPT !.ws = ws1]

RECURSIVE OnEvent(_, _, _)
RECURSIVE ForwardEvent(_, _, _)

\* for value in self.children.iter_mut() { if let Some(child) = value.upgrade() {..} }
ForwardEvent(es, kids, event) ==
    IF kids = << >> THEN es
    ELSE IF Resolves(es.ws, Head(kids))
         THEN ForwardEvent(OnEvent(es, Head(kids), event), Tail(kids), event)
         ELSE ForwardEvent(es, Tail(kids), event)

\* Widget::on_event(event, messages)
OnEvent(es, w, event) ==
    LET wd == es.ws[w]
        called == [es EXCEPT !.log = Append(@, [w |-> w, event |-> event])]
    IN
    CASE wd.kind = "root" ->
            IF event.kind = "KeyPressed" /\ event.key = "I"
            THEN [called EXCEPT !.messages =
                        Append(@, [message |-> "incremented", event |-> event])]
            ELSE IF event.kind = "KeyPressed" /\ event.key = "D"
            THEN [called EXCEPT !.messages =
                        Append(@, [message |-> "decremented", event |-> event])]
            ELSE ForwardEvent(called, wd.children, event)
      [] wd.kind = "tooltip_view" ->
            IF event.kind = "CursorMoved"
            THEN ForwardEvent(TooltipCursorMoved(called, w, event), wd.children, event)
            ELSE ForwardEvent(called, wd.children, event)
      [] OTHER -> called

RECURSIVE DispatchAllNewestFirst(_, _)
\* a drain that hands the newest event to the root first
DispatchAllNewestFirst(es, queue) ==
    IF queue = << >> THEN es
    ELSE DispatchAllNewestFirst(OnEvent(es, "root", queue[Len(queue)]),
                                SubSeq(queue, 1, Len(queue) - 1))

RECURSIVE DispatchAll(_, _)
\* for event in events.queue.drain(..) { root.on_event(event, &mut messages) }
DispatchAll(es, queue) ==
    IF queue = << >> THEN es
    ELSE DispatchAll(OnEvent(es, "root", Head(queue)), Tail(queue))

(***************************************************************************)
(* renderer.rs: the overlay pass of event_loop over the absolute widgets   *)
(***************************************************************************)
\* a loop body that takes the recipe before it assigns position and size
OverlayEntryStaleRecipe(st, key) ==
    LET e == st.awc.widgets[key]
        w == e.widget
    IN IF Resolves(st.ws, w) /\ st.ws[w].dirty
       THEN LET ws1 == SetSize(SetPosition(st.ws, w, e.position), w, e.size)
                ric1 == MapInsert(MapRemove(st.ric, key), key, Recipe(st.ws[w]))
            IN [st EXCEPT !.ws = SetDirty(ws1, w, FALSE), !.ric = ric1]
       ELSE st

\* the body of the loop for one entry (id, (value, position, size))
OverlayEntry(st, key) ==
    LET e == st.awc.widgets[key]
        w == e.widget
    IN IF Resolves(st.ws, w) /\ st.ws[w].dirty
       THEN LET ws1 == SetSize(SetPosition(st.ws, w, e.position), w, e.size)
                ric1 == MapInsert(MapRemove(st.ric, key), key, Recipe(ws1[w]))
            IN [st EXCEPT !.ws = SetDirty(ws1, w, FALSE), !.ric = ric1]
       ELSE st

RECURSIVE OverlayPass(_, _)
\* the loop over the entries in the order `keys` (a HashMap iterates in an
\* arbitrary order)
OverlayPass(st, keys) ==
    IF keys = << >> THEN st
    ELSE OverlayPass(OverlayEntry(st, Head(keys)), Tail(keys))

\* every order in which a set of keys can be iterated
Orders(S) == {q \in [1 .. Cardinality(S) -> S] : \A k \in S : \E i \in DOMAIN q : q[i] = k}

(***************************************************************************)
(* The state after construction: every widget new (dirty, id 0), the       *)
(* collections empty, event_loop about to start its first iteration.       *)
(***************************************************************************)
\* button_view.rs: minimum time to be considered a long press
ON_LONG_PRESS_TIME == 500

\* ButtonViewWidget::new at clock value t; on_press and on_long_press say
\* whether the Option holds a message; the button has no children
NewButton(size, is_clickable, on_press, on_long_press, t) ==
    [is_clickable |-> is_clickable, on_press |-> on_press,
     on_long_press |-> on_long_press, is_pressed |-> FALSE, click_time |-> t,
     cursor_pos |-> Vec(-1, -1), position |-> Vec(0, 0), size |-> size]

ButtonPressed(b) == [kind |-> "ButtonPressed", key |-> b, x |-> 0, y |-> 0]
ButtonReleased(b) == [kind |-> "ButtonReleased", key |-> b, x |-> 0, y |-> 0]

\* the events handed to the button
ButtonEvents ==
    {CursorMoved(p) : p \in Points}
        \cup {ButtonPressed("Left"), ButtonReleased("Left"), ButtonPressed("Right")}

\* a box test that leaves out the right and the bottom edge
IsCursorInsideHalfOpen(b, cursor_pos) ==
    /\ cursor_pos.x >= b.position.x
    /\ cursor_pos.x < b.position.x + b.size.x
    /\ cursor_pos.y >= b.position.y
    /\ cursor_pos.y < b.position.y + b.size.y

\* ButtonViewWidget::is_cursor_inside
IsCursorInside(b, cursor_pos) ==
    /\ cursor_pos.x >= b.position.x
    /\ cursor_pos.x <= b.position.x + b.size.x
    /\ cursor_pos.y >= b.position.y
    /\ cursor_pos.y <= b.position.y + b.size.y

\* CheckBoxWidget::is_cursor_inside
CheckBoxIsCursorInside(b, cursor_pos) ==
    /\ b.position.x + b.size.x >= cursor_pos.x
    /\ b.position.y + b.size.y >= cursor_pos.y
    /\ b.position.x <= cursor_pos.x
    /\ b.position.y <= cursor_pos.y

\* TabWidget::is_cursor_inside
TabIsCursorInside(b, cursor_pos) ==
    /\ cursor_pos.x >= b.position.x
    /\ cursor_pos.x <= b.position.x + b.size.x
    /\ cursor_pos.y >= b.position.y
    /\ cursor_pos.y <= b.position.y + b.size.y

\* TextBoxWidget::is_cursor_inside
TextBoxIsCursorInside(b, cursor_pos) ==
    /\ cursor_pos.x >= b.position.x
    /\ cursor_pos.x <= b.position.x + b.size.x
    /\ cursor_pos.y >= b.position.y
    /\ cursor_pos.y <= b.position.y + b.size.y

\* the widget kinds with a click handler
ClickableKinds == {"button", "tab", "textbox", "checkbox"}

\* is_cursor_inside of a widget of the given kind
IsCursorInsideOf(kind, b, cursor_pos) ==
    CASE kind = "button" -> IsCursorInside(b, cursor_pos)
      [] kind = "tab" -> TabIsCursorInside(b, cursor_pos)
      [] kind = "textbox" -> TextBoxIsCursorInside(b, cursor_pos)
      [] kind = "checkbox" -> CheckBoxIsCursorInside(b, cursor_pos)

\* an on_event whose release resets is_pressed only with the cursor inside
ButtonOnEventKeepsPressOutside(st, event, t) ==
    LET b == st.button IN
    CASE event.kind = "CursorMoved" ->
            [st EXCEPT !.button.cursor_pos = Vec(event.x, event.y)]
      [] event = ButtonPressed("Left") ->
            IF b.is_clickable /\ (b.on_press \/ b.on_long_press)
                              /\ IsCursorInside(b, b.cursor_pos)
            THEN [st EXCEPT !.button.is_pressed = TRUE, !.button.click_time = t]
            ELSE st
      [] event = ButtonReleased("Left") ->
            IF ~b.is_pressed THEN st
            ELSE IF ~IsCursorInside(b, b.cursor_pos) THEN st
            ELSE LET st1 == [st EXCEPT !.button.is_pressed = FALSE] IN
                 IF t - b.click_time < ON_LONG_PRESS_TIME
                 THEN IF b.on_press
                      THEN [st1 EXCEPT !.messages =
                                Append(@, [message |-> "on_press", event |-> event])]
                      ELSE st1
                 ELSE IF b.on_long_press
                      THEN [st1 EXCEPT !.messages =
                                Append(@, [message |-> "on_long_press", event |-> event])]
                      ELSE st1
      [] OTHER -> st

\* an on_event whose press does not look at is_clickable
ButtonOnEventAlwaysClickable(st, event, t) ==
    LET b == st.button IN
    CASE event.kind = "CursorMoved" ->
            [st EXCEPT !.button.cursor_pos = Vec(event.x, event.y)]
      [] event = ButtonPressed("Left") ->
            IF (b.on_press \/ b.on_long_press) /\ IsCursorInside(b, b.cursor_pos)
            THEN [st EXCEPT !.button.is_pressed = TRUE, !.button.click_time = t]
            ELSE st
      [] event = ButtonReleased("Left") ->
            IF ~b.is_pressed THEN st
            ELSE LET st1 == [st EXCEPT !.button.is_pressed = FALSE] IN
                 IF ~IsCursorInside(b, b.cursor_pos) THEN st1
                 ELSE IF t - b.click_time < ON_LONG_PRESS_TIME
                 THEN IF b.on_press
                      THEN [st1 EXCEPT !.messages =
                                Append(@, [message |-> "on_press", event |-> event])]
                      ELSE st1
                 ELSE IF b.on_long_press
                      THEN [st1 EXCEPT !.messages =
                                Append(@, [message |-> "on_long_press", event |-> event])]
                      ELSE st1
      [] OTHER -> st

\* an on_event that takes a hold of exactly the threshold for a short press
ButtonOnEventInclusive(st, event, t) ==
    LET b == st.button IN
    CASE event.kind = "CursorMoved" ->
            [st EXCEPT !.button.cursor_pos = Vec(event.x, event.y)]
      [] event = ButtonPressed("Left") ->
            IF b.is_clickable /\ (b.on_press \/ b.on_long_press)
                              /\ IsCursorInside(b, b.cursor_pos)
            THEN [st EXCEPT !.button.is_pressed = TRUE, !.button.click_time = t]
            ELSE st
      [] event = ButtonReleased("Left") ->
            IF ~b.is_pressed THEN st
            ELSE LET st1 == [st EXCEPT !.button.is_pressed = FALSE] IN
                 IF ~IsCursorInside(b, b.cursor_pos) THEN st1
                 ELSE IF t - b.click_time <= ON_LONG_PRESS_TIME
                 THEN IF b.on_press
                      THEN [st1 EXCEPT !.messages =
                                Append(@, [message |-> "on_press", event |-> event])]
                      ELSE st1
                 ELSE IF b.on_long_press
                      THEN [st1 EXCEPT !.messages =
                                Append(@, [message |-> "on_long_press", event |-> event])]
                      ELSE st1
      [] OTHER -> st

\* ButtonViewWidget::on_event at clock value t, on [button, messages];
\* click_time.elapsed().as_millis() is t - click_time
ButtonOnEvent(st, event, t) ==
    LET b == st.button IN
    CASE event.kind = "CursorMoved" ->
            [st EXCEPT !.button.cursor_pos = Vec(event.x, event.y)]
      [] event = ButtonPressed("Left") ->
            IF b.is_clickable /\ (b.on_press \/ b.on_long_press)
                              /\ IsCursorInside(b, b.cursor_pos)
            THEN [st EXCEPT !.button.is_pressed = TRUE, !.button.click_time = t]
            ELSE st
      [] event = ButtonReleased("Left") ->
            IF ~b.is_pressed THEN st
            ELSE LET st1 == [st EXCEPT !.button.is_pressed = FALSE] IN
                 IF ~IsCursorInside(b, b.cursor_pos) THEN st1
                 ELSE IF t - b.click_time < ON_LONG_PRESS_TIME
                 THEN IF b.on_press
                      THEN [st1 EXCEPT !.messages =
                                Append(@, [message |-> "on_press", event |-> event])]
                      ELSE st1
                 ELSE IF b.on_long_press
                      THEN [st1 EXCEPT !.messages =
                                Append(@, [message |-> "on_long_press", event |-> event])]
                      ELSE st1
      [] OTHER -> st

(***************************************************************************)
(* slider.rs: SliderWidget.  Coordinates are f64 in the code; the sliders   *)
(* of the model have a width for which step * size.x / (end - start) is a  *)
(* whole number, so that every x_coordinate is one too, and the halves     *)
(* (half a step, half the button) are compared after doubling both sides.  *)
(* An index out of range and a usize below zero panic.                     *)
(***************************************************************************)
RECURSIVE SliderPositionsFrom(_, _, _, _, _)
\* the loop of get_slider_positions from the value i on
SliderPositionsFrom(i, end, step, incremental_size, step_size) ==
    IF i > end THEN << >>
    ELSE <<[slider_value |-> i, x_coordinate |-> incremental_size]>>
             \o SliderPositionsFrom(i + step, end, step,
                                    incremental_size + step_size, step_size)

\* SliderWidget::get_slider_positions(start, end, step, position, size)
GetSliderPositions(start, end, step, position, size) ==
    LET limit == end - start
        step_size == (step * size.x) \div limit
    IN SliderPositionsFrom(start, end, step, position.x, step_size)

\* SliderWidget::get_slider_index(value, vector): the index, from 0, of the
\* position with the value, 0 when the binary search finds none
GetSliderIndex(value, vector) ==
    IF \E i \in DOMAIN vector : vector[i].slider_value = value
    THEN (CHOOSE i \in DOMAIN vector : vector[i].slider_value = value) - 1
    ELSE 0

\* SliderWidget::new
NewSlider(size, button_size, range, step, slider_value, on_slide) ==
    LET slider_positions == GetSliderPositions(range[1], range[2], step, Vec(0, 0), size)
    IN [slider_value |-> slider_value, range |-> range, step |-> step,
        on_slide |-> on_slide,
        slider_index |-> GetSliderIndex(slider_value, slider_positions),
        slider_positions |-> slider_positions, button_size |-> button_size,
        is_pressed |-> FALSE, cursor_pos |-> Vec(-1, -1), dirty |-> TRUE,
        position |-> Vec(0, 0), size |-> size, panicked |-> FALSE]

\* SliderWidget::is_cursor_inside: the box of the slider button, centred on
\* the current position
SliderIsCursorInside(sl, cursor_pos) ==
    LET x2 == 2 * sl.slider_positions[sl.slider_index + 1].x_coordinate - sl.button_size.x
        y2 == 2 * sl.position.y + sl.size.y - sl.button_size.y
    IN /\ 2 * cursor_pos.x >= x2
       /\ 2 * cursor_pos.x <= x2 + 2 * sl.button_size.x
       /\ 2 * cursor_pos.y >= y2
       /\ 2 * cursor_pos.y <= y2 + 2 * sl.button_size.y

RECURSIVE SeekUp(_, _, _)
\* while slider_positions[slider_index].x_coordinate < cursor_pos.x
\*     { slider_index = slider_index + 1 }
\* the outcome is an index or the panic of an index out of range
SeekUp(positions, i, x) ==
    IF i >= Len(positions) THEN [panic |-> TRUE, index |-> 0]
    ELSE IF positions[i + 1].x_coordinate < x THEN SeekUp(positions, i + 1, x)
    ELSE [panic |-> FALSE, index |-> i]

RECURSIVE SeekDown(_, _, _)
\* while slider_positions[slider_index].x_coordinate > cursor_pos.x
\*     { slider_index = slider_index - 1 }
SeekDown(positions, i, x) ==
    IF i < 0 THEN [panic |-> TRUE, index |-> 0]
    ELSE IF positions[i + 1].x_coordinate > x THEN SeekDown(positions, i - 1, x)
    ELSE [panic |-> FALSE, index |-> i]

\* the slider and the queue after the index has been moved
SliderMoved(st, found, event) ==
    IF found.panic THEN [st EXCEPT !.slider.panicked = TRUE]
    ELSE LET st1 == [st EXCEPT !.slider.slider_index = found.index,
                               !.slider.slider_value =
                                   st.slider.slider_positions[found.index + 1].slider_value]
         IN [IF st.slider.on_slide
             THEN [st1 EXCEPT !.messages = Append(@, [message |-> "on_slide",
                                                       event |-> event])]
             ELSE st1
             EXCEPT !.slider.dirty = TRUE, !.slider.is_pressed = FALSE]

\* SliderWidget::on_event(event, messages); the slider has no children
SliderOnEvent(st, event) ==
    LET sl == st.slider
        ps == sl.slider_positions
    IN
    CASE event.kind = "CursorMoved" ->
            IF sl.is_pressed
            THEN LET x == IF event.x > sl.position.x + sl.size.x
                          THEN sl.position.x + sl.size.x
                          ELSE IF event.x < sl.position.x THEN sl.position.x
                          ELSE event.x
                 IN [st EXCEPT !.slider.cursor_pos = Vec(x, event.y),
                               !.slider.dirty = TRUE]
            ELSE [st EXCEPT !.slider.cursor_pos = Vec(event.x, event.y)]
      [] event = ButtonPressed("Left") ->
            IF sl.slider_index >= Len(ps) THEN [st EXCEPT !.slider.panicked = TRUE]
            ELSE IF SliderIsCursorInside(sl, sl.cursor_pos)
            THEN [st EXCEPT !.slider.is_pressed = TRUE]
            ELSE st
      [] event = ButtonReleased("Left") ->
            IF ~sl.is_pressed THEN st
            ELSE IF Len(ps) < 2 THEN [st EXCEPT !.slider.panicked = TRUE]
            ELSE LET step2 == ps[2].x_coordinate - ps[1].x_coordinate
                     here2 == 2 * ps[sl.slider_index + 1].x_coordinate
                     done == [st EXCEPT !.slider.dirty = TRUE,
                                        !.slider.is_pressed = FALSE]
                 IN IF 2 * sl.cursor_pos.x > here2 + step2
                    THEN IF sl.slider_index # Len(ps) - 1
                         THEN SliderMoved(st, SeekUp(ps, sl.slider_index + 1,
                                                     sl.cursor_pos.x), event)
                         ELSE done
                    ELSE IF 2 * sl.cursor_pos.x < here2 - step2
                    THEN IF sl.slider_index # 0
                         THEN SliderMoved(st, SeekDown(ps, sl.slider_index - 1,
                                                       sl.cursor_pos.x), event)
                         ELSE done
                    ELSE done
      [] OTHER -> st

\* a slider of the values 0, 5, 10 across a width of 100
SliderAtRest == NewSlider(Vec(100, 10), Vec(10, 10), <<0, 10>>, 5, 0, TRUE)

(***************************************************************************)
(* tab.rs: TabWidget, and checkbox.rs: CheckBoxWidget                      *)
(***************************************************************************)
\* tab.rs: time required to press be considered long
TAB_ON_LONG_PRESS_TIME == 300

\* TabWidget::new at clock value t; on_press and tab_moved say whether the
\* Option holds a message; the tab has no children
NewTab(size, on_press, tab_moved, t) ==
    [on_press |-> on_press, tab_moved |-> tab_moved, is_pressed |-> FALSE,
     click_time |-> t, cursor_pos |-> Vec(-1, -1), moved_cursor_pos |-> Vec(-1, -1),
     position |-> Vec(0, 0), size |-> size]

\* TabWidget::on_event(event, messages); t1 and t2 are what the clock shows
\* at the first and at the second click_time.elapsed() of the release
TabOnEvent(st, event, t1, t2) ==
    LET b == st.tab IN
    CASE event.kind = "CursorMoved" ->
            [st EXCEPT !.tab.cursor_pos = Vec(event.x, event.y)]
      [] event = ButtonPressed("Left") ->
            IF TabIsCursorInside(b, b.cursor_pos)
            THEN [st EXCEPT !.tab.is_pressed = TRUE, !.tab.click_time = t1]
            ELSE st
      [] event = ButtonReleased("Left") ->
            IF ~b.is_pressed THEN st
            ELSE LET st1 == IF /\ TabIsCursorInside(b, b.cursor_pos)
                               /\ t1 - b.click_time < TAB_ON_LONG_PRESS_TIME
                               /\ b.on_press
                            THEN [st EXCEPT !.messages =
                                      Append(@, [message |-> "on_press", event |-> event])]
                            ELSE st
                     st2 == IF t2 - b.click_time > TAB_ON_LONG_PRESS_TIME
                            THEN [IF b.tab_moved
                                  THEN [st1 EXCEPT !.messages =
                                            Append(@, [message |-> "tab_moved",
                                                       event |-> event])]
                                  ELSE st1
                                  EXCEPT !.tab.moved_cursor_pos = b.cursor_pos]
                            ELSE st1
                 IN [st2 EXCEPT !.tab.is_pressed = FALSE]
      [] OTHER -> st

\* a tab with both messages
TabAtRest == NewTab(Vec(1, 1), TRUE, TRUE, 0)

\* CheckBoxWidget::new
NewCheckBox(size, is_checked, on_change) ==
    [is_checked |-> is_checked, on_change |-> on_change, cursor_pos |-> Vec(-1, -1),
     dirty |-> TRUE, position |-> Vec(0, 0), size |-> size]

\* CheckBoxWidget::is_mouse_inside
IsMouseInsideCheckBox(c) ==
    /\ c.cursor_pos.x >= c.position.x
    /\ c.cursor_pos.x <= c.position.x + c.size.x
    /\ c.cursor_pos.y >= c.position.y
    /\ c.cursor_pos.y <= c.position.y + c.size.y

\* an on_event that toggles on every press of the left button
CheckBoxOnEventAnywhere(st, event) ==
    LET c == st.checkbox IN
    CASE event.kind = "CursorMoved" ->
            [st EXCEPT !.checkbox.cursor_pos = Vec(event.x, event.y)]
      [] event = ButtonPressed("Left") ->
            [IF c.on_change
             THEN [st EXCEPT !.messages = Append(@, [message |-> "on_change",
                                                      event |-> event])]
             ELSE st
             EXCEPT !.checkbox.is_checked = ~c.is_checked, !.checkbox.dirty = TRUE]
      [] OTHER -> st

\* CheckBoxWidget::on_event(event, messages); the check box has no children
CheckBoxOnEvent(st, event) ==
    LET c == st.checkbox IN
    CASE event.kind = "CursorMoved" ->
            [st EXCEPT !.checkbox.cursor_pos = Vec(event.x, event.y)]
      [] event = ButtonPressed("Left") ->
            IF IsMouseInsideCheckBox(c)
            THEN [IF c.on_change
                  THEN [st EXCEPT !.messages = Append(@, [message |-> "on_change",
                                                           event |-> event])]
                  ELSE st
                  EXCEPT !.checkbox.is_checked = ~c.is_checked, !.checkbox.dirty = TRUE]
            ELSE st
      [] OTHER -> st

\* an unchecked check box with a message
CheckBoxAtRest == NewCheckBox(Vec(1, 1), FALSE, TRUE)

\* no call has been made yet
NoCall == [op |-> "none"]

\* the state with which event_loop is entered
InitLoop ==
    /\ \E off \in Offsets :
          widgets = [w \in Widgets |->
              CASE w = "root" -> NewRoot(DisplaySize, "Horizontal", <<"box", "view", "l3">>)
                [] w = "box"  -> NewLabel("0", Vec(2, 2), off, <<"l1">>)
                [] w = "view" -> NewTooltipView(Vec(2, 3), "tip", <<"l2">>)
                [] w = "l1"   -> NewLabel("0", Vec(1, 1), Vec(0, 0), << >>)
                [] w = "l2"   -> NewLabel("0", Vec(2, 1), Vec(0, 0), << >>)
                [] w = "l3"   -> NewLabel("0", Vec(1, 1), Vec(0, 0), << >>)
                [] w = "tip"  -> NewLabel("0", Vec(1, 1), Vec(0, 0), << >>)
                [] OTHER      -> FreeSlot]
    /\ idm = NewIDMachine
    /\ ric = EmptyMap
    /\ awc = NewAbsolute
    /\ events = << >>
    /\ messages = << >>
    /\ pc = "detect"
    /\ overflow_checks = BOOLEAN
    /\ build_log = << >>
    /\ delivered = 0
    /\ issued = << >>
    /\ event_log = << >>
    /\ display_open = TRUE
    /\ call = NoCall

Init ==
    /\ InitLoop
    /\ button = NewButton(Vec(1, 1), TRUE, TRUE, TRUE, 0)
    /\ now = 0
    /\ slider = SliderAtRest
    /\ tab = TabAtRest
    /\ checkbox = CheckBoxAtRest

(***************************************************************************)
(* renderer.rs: one iteration of Renderer::event_loop, step by step        *)
(***************************************************************************)
\* every sequence of at most n elements of S
SeqsUpTo(S, n) == UNION {[1 .. k -> S] : k \in 0 .. n}

\* Self::detect_display_events(&mut events, display)
DetectDisplayEvents ==
    /\ pc = "detect"
    /\ \E new \in SeqsUpTo(Events, Min(MaxBatch, MaxEvents - delivered)) :
          /\ events' = events \o new
          /\ delivered' = delivered + Len(new)
    /\ pc' = "events"
    /\ UNCHANGED <<widgets, idm, ric, awc, messages, overflow_checks, build_log, issued,
                   event_log, display_open, button, now, call,
                   slider, tab, checkbox>>

\* for event in events.queue.drain(..) { root.on_event(event, &mut messages) }
DispatchEvents ==
    /\ pc = "events"
    /\ LET es == DispatchAll([ws |-> widgets, awc |-> awc, ric |-> ric,
                              messages |-> messages, log |-> << >>], events)
       IN /\ widgets' = es.ws
          /\ event_log' = es.log
          /\ awc' = es.awc
          /\ ric' = es.ric
          /\ messages' = es.messages
    /\ events' = << >>
    /\ pc' = "build"
    /\ UNCHANGED <<idm, overflow_checks, build_log, delivered, issued,
                   display_open, button, now, call,
                   slider, tab, checkbox>>

\* root.build(Vector2D::new(0, 0), display_size, id_machine, collection);
\* the build profile shows, and is fixed from then on, when a subtraction
\* first leaves the range of usize
BuildPass ==
    /\ pc = "build"
    /\ \E checks \in overflow_checks :
          LET bs == Build([ws |-> widgets, idm |-> idm, ric |-> ric, log |-> << >>,
                           panic |-> FALSE, checks |-> checks, underflow |-> FALSE,
                           issued |-> issued],
                          "root", Vec(0, 0), DisplaySize)
          IN /\ widgets' = bs.ws
             /\ idm' = bs.idm
             /\ ric' = bs.ric
             /\ build_log' = bs.log
             /\ issued' = bs.issued
             /\ overflow_checks' = IF bs.underflow THEN {checks} ELSE overflow_checks
             /\ pc' = IF bs.panic THEN "panicked" ELSE "overlay"
    /\ UNCHANGED <<awc, events, messages, delivered, event_log,
                   display_open, button, now, call,
                   slider, tab, checkbox>>

\* the loop over absolute_widgets.widgets.iter()
OverlayWidgets ==
    /\ pc = "overlay"
    /\ \E keys \in Orders(DOMAIN awc.widgets) :
          LET st == OverlayPass([ws |-> widgets, ric |-> ric, awc |-> awc], keys)
          IN /\ widgets' = st.ws
             /\ ric' = st.ric
    /\ pc' = "draw"
    /\ build_log' = << >>
    /\ event_log' = << >>
    /\ UNCHANGED <<idm, awc, events, messages, overflow_checks, delivered, issued,
                   display_open, button, now, call,
                   slider, tab, checkbox>>

\* self.draw_collection(&mut collection, display)
DrawCollection ==
    /\ pc = "draw"
    /\ pc' = "update"
    /\ UNCHANGED <<widgets, idm, ric, awc, events, messages, overflow_checks, build_log,
                   delivered, issued,
                   event_log, display_open, button, now, call,
                   slider, tab, checkbox>>

(***************************************************************************)
(* for message in messages.queue.drain(..) { message.update() }            *)
(* update() is code of the toolkit user: it holds the owning handles of    *)
(* the widgets and calls their setters, or drops a handle.                 *)
(***************************************************************************)
\* a drain that takes the newest message first
DequeueNewest ==
    /\ pc = "update"
    /\ messages # << >>
    /\ messages' = SubSeq(messages, 1, Len(messages) - 1)
    /\ UNCHANGED <<idm, ric, awc, events, pc, overflow_checks, build_log, delivered,
                   issued, event_log,
                   display_open, button, now, call,
                   slider, tab, checkbox>>

\* the part common to every update(): the message leaves the queue
Dequeue ==
    /\ pc = "update"
    /\ messages # << >>
    /\ messages' = Tail(messages)
    /\ UNCHANGED <<idm, ric, awc, events, pc, overflow_checks, build_log, delivered,
                   issued,
                   event_log, display_open, button, now, call,
                   slider, tab, checkbox>>

\* LabelWidget::set_text
SetText(ws, w, text) == [ws EXCEPT ![w].text = text, ![w].dirty = TRUE]

\* LabelWidget::set_clip_point
SetClipPoint(ws, w, clip_point) == [ws EXCEPT ![w].clip_point = clip_point]

UpdateSetText ==
    /\ Dequeue
    /\ \E w \in {"box", "l1", "l2", "copy"}, t \in Texts :
          /\ widgets[w].alive
          /\ t # widgets[w].text
          /\ widgets' = SetText(widgets, w, t)

UpdateSetSize ==
    /\ Dequeue
    /\ \E w \in {"root", "box", "view"}, s \in UserSizes :
          /\ widgets[w].alive
          /\ w \in {"root", "view"} => s = Vec(1, 1)
          /\ widgets' = SetSize(widgets, w, s)

UpdateSetClipPoint ==
    /\ Dequeue
    /\ \E w \in {"l1"}, c \in {None, Some(Vec(1, 1))} :
          /\ widgets[w].alive
          /\ widgets' = SetClipPoint(widgets, w, c)

\* the owner drops its Rc: every Weak to the widget stops resolving
UpdateDrop ==
    /\ Dequeue
    /\ \E w \in {"box", "l2", "tip"} :
          /\ widgets[w].alive
          /\ widgets' = [widgets EXCEPT ![w].alive = FALSE]

\* an update() that touches no widget
UpdateNothing ==
    /\ Dequeue
    /\ UNCHANGED widgets

\* the message queue is drained: the loop starts over
NextIteration ==
    /\ pc = "update"
    /\ messages = << >>
    /\ pc' = "detect"
    /\ UNCHANGED <<widgets, idm, ric, awc, events, messages, overflow_checks, build_log,
                   delivered, issued,
                   event_log, display_open, button, now, call,
                   slider, tab, checkbox>>

Next ==
    \/ DetectDisplayEvents
    \/ DispatchEvents
    \/ BuildPass
    \/ OverlayWidgets
    \/ DrawCollection
    \/ UpdateSetText
    \/ UpdateSetSize
    \/ UpdateSetClipPoint
    \/ UpdateDrop
    \/ UpdateNothing
    \/ NextIteration

Spec == Init /\ [][Next]_vars

(***************************************************************************)
(* The same program with a toolkit user whose update() also inserts the    *)
(* tooltip widget into the AbsoluteWidgetCollection itself, whether or not *)
(* the widget is still owned.                                              *)
(***************************************************************************)
UpdateInsert ==
    /\ pc = "update"
    /\ messages # << >>
    /\ messages' = Tail(messages)
    /\ \E p \in Points :
          LET r == AbsoluteInsert(awc, widgets, "tip", p, widgets["tip"].original_size)
          IN /\ awc' = r.awc
             /\ widgets' = r.ws
    /\ UNCHANGED <<idm, ric, events, pc, overflow_checks, build_log, delivered, issued,
                   event_log, display_open, button, now, call,
                   slider, tab, checkbox>>

NextInsert ==
    \/ Next
    \/ UpdateInsert

SpecInsert == Init /\ [][NextInsert]_vars

(***************************************************************************)
(* A ButtonViewWidget on its own: events are handed to its on_event while  *)
(* the clock advances between them.                                        *)
(***************************************************************************)
InitButton ==
    /\ InitLoop
    /\ \E size \in UserSizes, is_clickable \in BOOLEAN,
          on_press \in BOOLEAN, on_long_press \in BOOLEAN :
          button = NewButton(size, is_clickable, on_press, on_long_press, 0)
    /\ now = 0
    /\ slider = SliderAtRest
    /\ tab = TabAtRest
    /\ checkbox = CheckBoxAtRest

\* button.on_event(event, &mut messages); the call is logged with its time
ButtonEvent ==
    /\ Len(event_log) < MaxButtonEvents
    /\ \E e \in ButtonEvents :
          LET st == ButtonOnEvent([button |-> button, messages |-> messages], e, now)
          IN /\ button' = st.button
             /\ messages' = st.messages
             /\ event_log' = Append(event_log, [w |-> "button", event |-> e, at |-> now])
    /\ UNCHANGED <<widgets, idm, ric, awc, events, pc, overflow_checks, build_log,
                   delivered, issued, display_open, now, call,
                   slider, tab, checkbox>>

\* time passes between two events
Tick ==
    /\ \E d \in {ON_LONG_PRESS_TIME - 1, ON_LONG_PRESS_TIME, ON_LONG_PRESS_TIME + 1} :
          /\ now + d <= MaxClock
          /\ now' = now + d
    /\ UNCHANGED <<widgets, idm, ric, awc, events, messages, pc, overflow_checks,
                   build_log, delivered, issued, event_log, display_open, button, call,
                   slider, tab, checkbox>>

NextButton ==
    \/ ButtonEvent
    \/ Tick

SpecButton == InitButton /\ [][NextButton]_vars

(***************************************************************************)
(* Hit tests: is_cursor_inside is called on a widget of a clickable kind   *)
(* that lies at some position with some size.                              *)
(***************************************************************************)
\* the coordinates used for positions and points
HitCoordinates == {9, 10, 30, 31}

HitPositions == {Vec(0, 0), Vec(10, 10)}

HitSizes == {Vec(20, 20), Vec(1, 1)}

InitHit ==
    /\ InitLoop
    /\ \E position \in HitPositions, size \in HitSizes :
          button = [NewButton(size, TRUE, TRUE, TRUE, 0) EXCEPT !.position = position]
    /\ now = 0
    /\ slider = SliderAtRest
    /\ tab = TabAtRest
    /\ checkbox = CheckBoxAtRest

\* widget.is_cursor_inside(point)
HitTest ==
    /\ \E kind \in ClickableKinds, x \in HitCoordinates, y \in HitCoordinates :
          call' = [op |-> "is_cursor_inside", kind |-> kind, point |-> Vec(x, y),
                   result |-> IsCursorInsideOf(kind, button, Vec(x, y))]
    /\ UNCHANGED <<widgets, idm, ric, awc, events, messages, pc, overflow_checks,
                   build_log, delivered, issued, event_log, display_open, button, now,
                   slider, tab, checkbox>>

NextHit == HitTest

SpecHit == InitHit /\ [][NextHit]_vars

(***************************************************************************)
(* The same program with a toolkit user whose update() calls one of the    *)
(* four geometry setters on a widget it owns.                              *)
(***************************************************************************)
Setters == {"set_size", "set_original_size", "set_position", "set_offset"}

\* the widget after the call of a setter
ApplySetter(ws, op, w, value) ==
    CASE op = "set_size" -> SetSize(ws, w, value)
      [] op = "set_original_size" -> SetOriginalSize(ws, w, value)
      [] op = "set_position" -> SetPosition(ws, w, value)
      [] op = "set_offset" -> SetOffset(ws, w, value)

UpdateSetter ==
    /\ pc = "update"
    /\ messages # << >>
    /\ messages' = Tail(messages)
    /\ \E op \in Setters, w \in {"root", "view", "l2"}, value \in {Vec(1, 1), Vec(2, 1)} :
          /\ widgets' = ApplySetter(widgets, op, w, value)
          /\ call' = [op |-> op, w |-> w, value |-> value]
    /\ UNCHANGED <<idm, ric, awc, events, pc, overflow_checks, build_log, delivered,
                   issued, event_log, display_open, button, now,
                   slider, tab, checkbox>>

NextSetters ==
    \/ DetectDisplayEvents
    \/ DispatchEvents
    \/ BuildPass
    \/ OverlayWidgets
    \/ DrawCollection
    \/ UpdateSetter
    \/ NextIteration

SpecSetters == Init /\ [][NextSetters]_vars

(***************************************************************************)
(* The Grid(axis, cross_count) case of build.  The revision of widget.rs   *)
(* with the Layout dispatch is not among the sources; this case follows    *)
(* the toolkit's description of build: a uniform cell of                   *)
(* size / (cross_count, ceil(children / cross_count)), the axis deciding   *)
(* which dimension holds cross_count cells, and a recursion into every     *)
(* child at the cell its index gives, whatever its dirty flag.             *)
(***************************************************************************)
\* a container whose layout() is Grid(axis, cross_count)
NewGrid(size, axis, cross_count, kids) ==
    [kind |-> "grid", alive |-> TRUE, id |-> 0, dirty |-> TRUE,
     position |-> Vec(0, 0), size |-> size, original_size |-> size,
     axis |-> axis, cross_count |-> cross_count, offset |-> Vec(0, 0),
     children |-> kids, text |-> "", clip_point |-> None, clip_size |-> None,
     cursor_pos |-> Vec(-1, -1), tooltip_widget |-> "none"]

\* ceil(a / b)
CeilDiv(a, b) == (a + b - 1) \div b

\* the number of cells along x and along y
GridCounts(axis, cross_count, n) ==
    IF axis = "Vertical" THEN Vec(cross_count, CeilDiv(n, cross_count))
    ELSE Vec(CeilDiv(n, cross_count), cross_count)

\* the uniform cell size
GridCellSize(axis, cross_count, n, size) ==
    LET counts == GridCounts(axis, cross_count, n)
    IN Vec(size.x \div counts.x, size.y \div counts.y)

\* the offset of the cell of the child with index i (from 0)
GridCellOffset(axis, cross_count, i, cell) ==
    IF axis = "Vertical"
    THEN Vec((i % cross_count) * cell.x, (i \div cross_count) * cell.y)
    ELSE Vec((i \div cross_count) * cell.x, (i % cross_count) * cell.y)

RECURSIVE GridChildren(_, _, _, _, _)
\* the recursion into the children of a grid, from the child with index i on
GridChildren(bs, g, i, position, cell) ==
    LET kids == bs.ws[g].children IN
    IF i >= Len(kids) \/ bs.panic THEN bs
    ELSE LET c == kids[i + 1] IN
         IF ~Resolves(bs.ws, c) THEN GridChildren(bs, g, i + 1, position, cell)
         ELSE LET at == VAdd(position,
                             GridCellOffset(bs.ws[g].axis, bs.ws[g].cross_count, i, cell))
                  visit == [op |-> "visit", w |-> c, position |-> at,
                            avail |-> cell, size |-> cell,
                            dirty |-> bs.ws[c].dirty, forced |-> FALSE]
                  bs1 == [bs EXCEPT !.log = Append(@, visit)]
              IN GridChildren(Build(bs1, c, at, cell), g, i + 1, position, cell)

\* build(position, max, ..) of a widget whose layout() is Grid
GridBuild(bs, g, position, max) ==
    LET entry == [op |-> "build", w |-> g, position |-> position,
                  avail |-> max, size |-> max,
                  dirty |-> bs.ws[g].dirty, forced |-> FALSE]
        bs0 == [bs EXCEPT !.log = Append(@, entry)]
        bs1 == IF bs0.ws[g].dirty THEN BuildSelf(bs0, g, position, max) ELSE bs0
        wd == bs1.ws[g]
        cell == GridCellSize(wd.axis, wd.cross_count, Len(wd.children), wd.size)
    IN IF bs1.panic THEN bs1 ELSE GridChildren(bs1, g, 0, wd.position, cell)

\* the regions a grid is built in
GridRegions == {Vec(100, 100), Vec(120, 60)}

GridKids == <<"l1", "l2", "l3", "tip">>

\* a grid of one to four fresh labels, in a region its cells divide exactly
InitGrid ==
    /\ \E axis \in {"Horizontal", "Vertical"}, cross_count \in 1 .. 3,
          n \in 1 .. Len(GridKids), region \in GridRegions :
          /\ region.x % GridCounts(axis, cross_count, n).x = 0
          /\ region.y % GridCounts(axis, cross_count, n).y = 0
          /\ widgets = [w \in Widgets |->
                IF w = "box" THEN NewGrid(region, axis, cross_count, SubSeq(GridKids, 1, n))
                ELSE IF \E i \in 1 .. n : GridKids[i] = w
                THEN NewLabel("0", Vec(50, 50), Vec(0, 0), << >>)
                ELSE FreeSlot]
    /\ idm = NewIDMachine
    /\ ric = EmptyMap
    /\ awc = NewAbsolute
    /\ events = << >>
    /\ messages = << >>
    /\ pc = "build"
    /\ overflow_checks = BOOLEAN
    /\ build_log = << >>
    /\ delivered = 0
    /\ issued = << >>
    /\ event_log = << >>
    /\ display_open = TRUE
    /\ call = NoCall
    /\ button = NewButton(Vec(1, 1), TRUE, TRUE, TRUE, 0)
    /\ now = 0
    /\ slider = SliderAtRest
    /\ tab = TabAtRest
    /\ checkbox = CheckBoxAtRest

\* grid.build(Vector2D::new(0, 0), region, id_machine, collection)
GridBuildPass ==
    /\ pc = "build"
    /\ delivered < MaxGridBuilds
    /\ \E checks \in overflow_checks :
          LET bs == GridBuild([ws |-> widgets, idm |-> idm, ric |-> ric, log |-> << >>,
                               panic |-> FALSE, checks |-> checks, underflow |-> FALSE,
                               issued |-> issued],
                              "box", Vec(0, 0), widgets["box"].original_size)
          IN /\ widgets' = bs.ws
             /\ idm' = bs.idm
             /\ ric' = bs.ric
             /\ build_log' = bs.log
             /\ issued' = bs.issued
    /\ delivered' = delivered + 1
    /\ pc' = "update"
    /\ UNCHANGED <<awc, events, messages, overflow_checks, event_log, display_open,
                   button, now, call,
                   slider, tab, checkbox>>

\* between two builds the owner of the labels sets the text of one of them
GridSetText ==
    /\ pc = "update"
    /\ \E w \in Widgets \ {"box"}, t \in Texts :
          /\ widgets[w].alive
          /\ t # widgets[w].text
          /\ widgets' = SetText(widgets, w, t)
    /\ pc' = "build"
    /\ UNCHANGED <<idm, ric, awc, events, messages, overflow_checks, build_log,
                   delivered, issued, event_log, display_open, button, now, call,
                   slider, tab, checkbox>>

NextGrid == GridBuildPass \/ GridSetText

SpecGrid == InitGrid /\ [][NextGrid]_vars

(***************************************************************************)
(* The instruction collection on its own: any sequence of                  *)
(* replace_or_insert and remove calls.                                     *)
(***************************************************************************)
\* the ids the calls are made with
CollectionIds == {1, 2, 3, UsizeMax}

\* the instruction vectors the calls are made with
CollectionInstructions ==
    {Recipe(NewRoot(DisplaySize, "Horizontal", << >>)),
     Recipe(NewLabel("0", Vec(1, 1), Vec(0, 0), << >>))}

\* collection.replace_or_insert(id, instructions); `was` is what the
\* BTreeMap's insert returns and the method discards
CollectionReplaceOrInsert ==
    /\ \E id \in CollectionIds, instructions \in CollectionInstructions :
          /\ ric' = MapInsert(ric, id, instructions)
          /\ call' = [op |-> "replace_or_insert", id |-> id,
                      instructions |-> instructions, was |-> Lookup(ric, id)]
    /\ UNCHANGED <<widgets, idm, awc, events, messages, pc, overflow_checks,
                   build_log, delivered, issued, event_log, display_open, button, now,
                   slider, tab, checkbox>>

\* collection.remove(id); `was` is what the BTreeMap's remove returns and the
\* method discards
CollectionRemove ==
    /\ \E id \in CollectionIds :
          /\ ric' = MapRemove(ric, id)
          /\ call' = [op |-> "remove", id |-> id, instructions |-> << >>,
                      was |-> Lookup(ric, id)]
    /\ UNCHANGED <<widgets, idm, awc, events, messages, pc, overflow_checks,
                   build_log, delivered, issued, event_log, display_open, button, now,
                   slider, tab, checkbox>>

NextCollection == CollectionReplaceOrInsert \/ CollectionRemove

SpecCollection == Init /\ [][NextCollection]_vars

(***************************************************************************)
(* event.rs: ModifiersState and its matches, called with any two states.   *)
(***************************************************************************)
\* every ModifiersState
ModifiersStates == [shift : BOOLEAN, control : BOOLEAN, alt : BOOLEAN, logo : BOOLEAN]

\* a matches that asks for the same modifiers on both sides
MatchesExactly(self, modifiers) == self = modifiers

\* ModifiersState::matches(&self, modifiers)
Matches(self, modifiers) ==
    LET shift == ~modifiers.shift \/ self.shift
        control == ~modifiers.control \/ self.control
        alt == ~modifiers.alt \/ self.alt
        logo == ~modifiers.logo \/ self.logo
    IN shift /\ control /\ alt /\ logo

\* self.matches(required)
MatchesCall ==
    /\ \E self \in ModifiersStates, required \in ModifiersStates :
          call' = [op |-> "matches", self |-> self, required |-> required,
                   result |-> Matches(self, required)]
    /\ UNCHANGED <<widgets, idm, ric, awc, events, messages, pc, overflow_checks,
                   build_log, delivered, issued, event_log, display_open, button, now,
                   slider, tab, checkbox>>

NextModifiers == MatchesCall

SpecModifiers == Init /\ [][NextModifiers]_vars

(***************************************************************************)
(* The same program with the label l3 in front of the label box, which     *)
(* holds the label l1, and a toolkit user whose update() resizes l3.       *)
(***************************************************************************)
InitNested ==
    /\ widgets = [w \in Widgets |->
          CASE w = "root" -> NewRoot(DisplaySize, "Horizontal", <<"l3", "box", "view">>)
            [] w = "box"  -> NewLabel("0", Vec(2, 2), Vec(0, 0), <<"l1">>)
            [] w = "view" -> NewTooltipView(Vec(2, 3), "tip", <<"l2">>)
            [] w = "l1"   -> NewLabel("0", Vec(1, 1), Vec(0, 0), << >>)
            [] w = "l2"   -> NewLabel("0", Vec(2, 1), Vec(0, 0), << >>)
            [] w = "l3"   -> NewLabel("0", Vec(1, 1), Vec(0, 0), << >>)
            [] w = "tip"  -> NewLabel("0", Vec(1, 1), Vec(0, 0), << >>)
            [] OTHER      -> FreeSlot]
    /\ idm = NewIDMachine
    /\ ric = EmptyMap
    /\ awc = NewAbsolute
    /\ events = << >>
    /\ messages = << >>
    /\ pc = "detect"
    /\ overflow_checks = BOOLEAN
    /\ build_log = << >>
    /\ delivered = 0
    /\ issued = << >>
    /\ event_log = << >>
    /\ display_open = TRUE
    /\ call = NoCall
    /\ button = NewButton(Vec(1, 1), TRUE, TRUE, TRUE, 0)
    /\ now = 0
    /\ slider = SliderAtRest
    /\ tab = TabAtRest
    /\ checkbox = CheckBoxAtRest

UpdateSetSizeOfFirst ==
    /\ Dequeue
    /\ \E s \in UserSizes : widgets' = SetSize(widgets, "l3", s)

NextNested ==
    \/ DetectDisplayEvents
    \/ DispatchEvents
    \/ BuildPass
    \/ OverlayWidgets
    \/ DrawCollection
    \/ UpdateSetSizeOfFirst
    \/ UpdateNothing
    \/ NextIteration

SpecNested == InitNested /\ [][NextNested]_vars

(***************************************************************************)
(* The same program with a container (the tooltip view) of three labels    *)
(* and a toolkit user whose update() calls set_dirty or set_size on the    *)
(* container, sets the text of one of its children or drops one.           *)
(***************************************************************************)
InitContainer ==
    /\ widgets = [w \in Widgets |->
          CASE w = "root" -> NewRoot(DisplaySize, "Horizontal", <<"view", "box">>)
            [] w = "box"  -> NewLabel("0", Vec(2, 2), Vec(0, 0), << >>)
            [] w = "view" -> NewTooltipView(Vec(2, 3), "tip", <<"l1", "l2", "l3">>)
            [] w = "l1"   -> NewLabel("0", Vec(1, 1), Vec(0, 0), << >>)
            [] w = "l2"   -> NewLabel("0", Vec(2, 1), Vec(0, 0), << >>)
            [] w = "l3"   -> NewLabel("0", Vec(1, 1), Vec(0, 0), << >>)
            [] w = "tip"  -> NewLabel("0", Vec(1, 1), Vec(0, 0), << >>)
            [] OTHER      -> FreeSlot]
    /\ idm = NewIDMachine
    /\ ric = EmptyMap
    /\ awc = NewAbsolute
    /\ events = << >>
    /\ messages = << >>
    /\ pc = "detect"
    /\ overflow_checks = BOOLEAN
    /\ build_log = << >>
    /\ delivered = 0
    /\ issued = << >>
    /\ event_log = << >>
    /\ display_open = TRUE
    /\ call = NoCall
    /\ button = NewButton(Vec(1, 1), TRUE, TRUE, TRUE, 0)
    /\ now = 0
    /\ slider = SliderAtRest
    /\ tab = TabAtRest
    /\ checkbox = CheckBoxAtRest

\* an update() that calls view.set_dirty(value)
UpdateSetDirtyOfContainer ==
    /\ pc = "update"
    /\ messages # << >>
    /\ messages' = Tail(messages)
    /\ \E value \in BOOLEAN :
          /\ widgets' = SetDirty(widgets, "view", value)
          /\ call' = [op |-> "set_dirty", w |-> "view", value |-> value]
    /\ UNCHANGED <<idm, ric, awc, events, pc, overflow_checks, build_log, delivered,
                   issued, event_log, display_open, button, now,
                   slider, tab, checkbox>>

\* an update() that calls view.set_size(size)
UpdateSetSizeOfContainer ==
    /\ pc = "update"
    /\ messages # << >>
    /\ messages' = Tail(messages)
    /\ \E size \in {Vec(2, 3), Vec(2, 2)} :
          /\ widgets' = SetSize(widgets, "view", size)
          /\ call' = [op |-> "set_size", w |-> "view", value |-> size]
    /\ UNCHANGED <<idm, ric, awc, events, pc, overflow_checks, build_log, delivered,
                   issued, event_log, display_open, button, now,
                   slider, tab, checkbox>>

\* an update() that calls set_text on a child of the container or drops it
UpdateChildOfContainer ==
    /\ pc = "update"
    /\ messages # << >>
    /\ messages' = Tail(messages)
    /\ \E w \in {"l1", "l2", "l3"} :
          /\ widgets[w].alive
          /\ \/ /\ widgets' = SetText(widgets, w, "1")
                /\ call' = [op |-> "set_text", w |-> w, value |-> "1"]
             \/ /\ widgets' = [widgets EXCEPT ![w].alive = FALSE]
                /\ call' = [op |-> "drop", w |-> w, value |-> ""]
    /\ UNCHANGED <<idm, ric, awc, events, pc, overflow_checks, build_log, delivered,
                   issued, event_log, display_open, button, now,
                   slider, tab, checkbox>>

NextContainer ==
    \/ DetectDisplayEvents
    \/ DispatchEvents
    \/ BuildPass
    \/ OverlayWidgets
    \/ DrawCollection
    \/ UpdateSetDirtyOfContainer
    \/ UpdateSetSizeOfContainer
    \/ UpdateChildOfContainer
    \/ NextIteration

SpecContainer == InitContainer /\ [][NextContainer]_vars

(***************************************************************************)
(* A SliderWidget on its own, 100 wide, to which events are handed.        *)
(***************************************************************************)
\* the sliders have the values 0, 5, 10; the values 0, 3, 6, 9, where the
\* length of the range is not a multiple of the step; the values 0, 10; or the
\* single value 0; each starts at the lower or at the upper end of its range
InitSlider ==
    /\ InitLoop
    /\ button = NewButton(Vec(1, 1), TRUE, TRUE, TRUE, 0)
    /\ \E r \in {[range |-> <<0, 10>>, step |-> 5], [range |-> <<0, 10>>, step |-> 3],
                 [range |-> <<0, 10>>, step |-> 10], [range |-> <<0, 2>>, step |-> 3]},
          at_end \in BOOLEAN, on_slide \in BOOLEAN :
          /\ (r.step * 100) % (r.range[2] - r.range[1]) = 0
          /\ slider = NewSlider(Vec(100, 10), Vec(10, 10), r.range, r.step,
                                IF at_end THEN r.range[2] ELSE r.range[1], on_slide)
    /\ tab = TabAtRest
    /\ checkbox = CheckBoxAtRest
    /\ now = 0

\* slider.on_event(event, &mut messages); the cursor is reported at a height
\* inside the slider; a panic ends the thread
SliderEvent ==
    /\ Len(event_log) < MaxSliderEvents
    /\ ~slider.panicked
    /\ \E e \in {CursorMoved(Vec(x, 5)) : x \in {-5, 0, 40, 100, 120}}
                  \cup {ButtonPressed("Left"), ButtonReleased("Left")} :
          LET st == SliderOnEvent([slider |-> slider, messages |-> messages], e)
          IN /\ slider' = st.slider
             /\ messages' = st.messages
             /\ event_log' = Append(event_log, [w |-> "slider", event |-> e])
    /\ UNCHANGED <<widgets, idm, ric, awc, events, pc, overflow_checks, build_log,
                   delivered, issued, display_open, button, now, call, tab, checkbox>>

NextSlider == SliderEvent

SpecSlider == InitSlider /\ [][NextSlider]_vars

(***************************************************************************)
(* Press sequences on a ButtonViewWidget of size (1,1): the cursor moves   *)
(* in and out, the left button goes down and up, and the toolkit user      *)
(* calls set_is_clickable.  Each call is logged with the time and with     *)
(* is_clickable as the call found it.                                      *)
(***************************************************************************)
\* the events of a press sequence
PressEvents ==
    {CursorMoved(p) : p \in Points} \cup {ButtonPressed("Left"), ButtonReleased("Left")}

InitPress ==
    /\ InitLoop
    /\ \E is_clickable \in BOOLEAN, on_press \in BOOLEAN, on_long_press \in BOOLEAN :
          button = NewButton(Vec(1, 1), is_clickable, on_press, on_long_press, 0)
    /\ now = 0
    /\ slider = SliderAtRest
    /\ tab = TabAtRest
    /\ checkbox = CheckBoxAtRest

\* button.on_event(event, &mut messages); a release, whose handler reads how
\* long the press has lasted, comes at once or after a long while
PressEvent ==
    /\ Len(event_log) < MaxPressEvents
    /\ \E e \in PressEvents :
       \E t \in IF e = ButtonReleased("Left") THEN {now, now + ON_LONG_PRESS_TIME}
                ELSE {now} :
          LET st == ButtonOnEvent([button |-> button, messages |-> messages], e, t)
          IN /\ t <= MaxClock
             /\ now' = t
             /\ button' = st.button
             /\ messages' = st.messages
             /\ event_log' = Append(event_log, [w |-> "button", event |-> e, at |-> t,
                                                is_clickable |-> button.is_clickable])
    /\ UNCHANGED <<widgets, idm, ric, awc, events, pc, overflow_checks, build_log,
                   delivered, issued, display_open, call, slider, tab, checkbox>>

\* button.set_is_clickable(value)
SetIsClickable ==
    /\ Len(event_log) < MaxPressEvents
    /\ \E value \in BOOLEAN :
          button' = [button EXCEPT !.is_clickable = value]
    /\ event_log' = Append(event_log,
                           [w |-> "button",
                            event |-> [kind |-> "set_is_clickable", key |-> "",
                                       x |-> 0, y |-> 0],
                            at |-> now, is_clickable |-> button.is_clickable])
    /\ UNCHANGED <<widgets, idm, ric, awc, events, messages, pc, overflow_checks,
                   build_log, delivered, issued, display_open, now, call,
                   slider, tab, checkbox>>

NextPress ==
    \/ PressEvent
    \/ SetIsClickable

SpecPress == InitPress /\ [][NextPress]_vars

(***************************************************************************)
(* A TabWidget of size (1,1) on its own.  A release comes some time after  *)
(* the event before it, and its handler reads click_time.elapsed() twice,  *)
(* the second time up to two milliseconds after the first.                 *)
(***************************************************************************)
InitTab ==
    /\ InitLoop
    /\ button = NewButton(Vec(1, 1), TRUE, TRUE, TRUE, 0)
    /\ now = 0
    /\ slider = SliderAtRest
    /\ \E on_press \in BOOLEAN, tab_moved \in BOOLEAN :
          tab = NewTab(Vec(1, 1), on_press, tab_moved, 0)
    /\ checkbox = CheckBoxAtRest

\* tab.on_event(event, &mut messages); a release comes d milliseconds after
\* the event before it and reads the clock a second time g milliseconds after
\* the first; the call is logged with the two readings
TabEvent ==
    /\ Len(event_log) < MaxTabEvents
    /\ \E e \in PressEvents :
       \E d \in IF e = ButtonReleased("Left")
                THEN {0, TAB_ON_LONG_PRESS_TIME - 1, TAB_ON_LONG_PRESS_TIME,
                      TAB_ON_LONG_PRESS_TIME + 1}
                ELSE {0} :
       \E g \in IF e = ButtonReleased("Left") THEN {0, 1, 2} ELSE {0} :
          LET t1 == now + d
              t2 == t1 + g
              st == TabOnEvent([tab |-> tab, messages |-> messages], e, t1, t2)
          IN /\ t2 <= MaxClock
             /\ now' = t2
             /\ tab' = st.tab
             /\ messages' = st.messages
             /\ event_log' = Append(event_log, [w |-> "tab", event |-> e,
                                                at |-> t1, then |-> t2])
    /\ UNCHANGED <<widgets, idm, ric, awc, events, pc, overflow_checks, build_log,
                   delivered, issued, display_open, button, call, slider, checkbox>>

NextTab == TabEvent

SpecTab == InitTab /\ [][NextTab]_vars

(***************************************************************************)
(* A CheckBoxWidget of size (1,1) on its own.  Each call is logged with    *)
(* is_checked as the call found it; a build clears the dirty flag.         *)
(***************************************************************************)
InitCheckBox ==
    /\ InitLoop
    /\ button = NewButton(Vec(1, 1), TRUE, TRUE, TRUE, 0)
    /\ now = 0
    /\ slider = SliderAtRest
    /\ tab = TabAtRest
    /\ \E is_checked \in BOOLEAN, on_change \in BOOLEAN :
          checkbox = NewCheckBox(Vec(1, 1), is_checked, on_change)

\* checkbox.on_event(event, &mut messages)
CheckBoxEvent ==
    /\ Len(event_log) < MaxCheckBoxEvents
    /\ \E e \in PressEvents :
          LET st == CheckBoxOnEvent([checkbox |-> checkbox, messages |-> messages], e)
          IN /\ checkbox' = st.checkbox
             /\ messages' = st.messages
             /\ event_log' = Append(event_log, [w |-> "checkbox", event |-> e,
                                                is_checked |-> checkbox.is_checked])
    /\ UNCHANGED <<widgets, idm, ric, awc, events, pc, overflow_checks, build_log,
                   delivered, issued, display_open, button, now, call, slider, tab>>

\* checkbox.set_dirty(false), as build calls it on a dirty widget
CheckBoxSetDirtyFalse ==
    /\ Len(event_log) < MaxCheckBoxEvents
    /\ checkbox.dirty
    /\ checkbox' = [checkbox EXCEPT !.dirty = FALSE]
    /\ event_log' = Append(event_log,
                           [w |-> "checkbox",
                            event |-> [kind |-> "set_dirty", key |-> "", x |-> 0, y |-> 0],
                            is_checked |-> checkbox.is_checked])
    /\ UNCHANGED <<widgets, idm, ric, awc, events, messages, pc, overflow_checks,
                   build_log, delivered, issued, display_open, button, now, call,
                   slider, tab>>

NextCheckBox ==
    \/ CheckBoxEvent
    \/ CheckBoxSetDirtyFalse

SpecCheckBox == InitCheckBox /\ [][NextCheckBox]_vars

(***************************************************************************)
(* The same program with a cursor that keeps moving in and out of `view`:  *)
(* every iteration receives one CursorMoved, no message is enqueued, and   *)
(* the run goes on until the counter of the AbsoluteWidgetCollection has   *)
(* come down to 0.  There `self.counter -= 1` leaves the range of usize:   *)
(* it panics in a build with overflow checks and wraps in one without.     *)
(***************************************************************************)
\* detect_display_events enqueues one CursorMoved
DetectCursorMoved ==
    /\ pc = "detect"
    /\ \E p \in Points : events' = Append(events, CursorMoved(p))
    /\ pc' = "events"
    /\ UNCHANGED <<widgets, idm, ric, awc, messages, overflow_checks, build_log,
                   delivered, issued, event_log, display_open, button, now, call,
                   slider, tab, checkbox>>

\* the drain of the event queue; an insert at counter 0 shows the build
\* profile, which is fixed from then on
DispatchCursorMoved ==
    /\ pc = "events"
    /\ \E checks \in overflow_checks :
          LET es == DispatchAll([ws |-> widgets, awc |-> awc, ric |-> ric,
                                 messages |-> messages, log |-> << >>], events)
              underflow == awc.counter = 0 /\ es.awc.counter = UsizeMax
          IN /\ widgets' = es.ws
             /\ event_log' = es.log
             /\ awc' = IF underflow /\ checks THEN [es.awc EXCEPT !.counter = 0]
                       ELSE es.awc
             /\ ric' = es.ric
             /\ messages' = es.messages
             /\ overflow_checks' = IF underflow THEN {checks} ELSE overflow_checks
             /\ pc' = IF underflow /\ checks THEN "panicked" ELSE "build"
    /\ events' = << >>
    /\ UNCHANGED <<idm, build_log, delivered, issued, display_open, button, now, call,
                   slider, tab, checkbox>>

NextShow ==
    \/ DetectCursorMoved
    \/ DispatchCursorMoved
    \/ BuildPass
    \/ OverlayWidgets
    \/ DrawCollection
    \/ NextIteration

SpecShow == Init /\ [][NextShow]_vars

(***************************************************************************)
(* The same program on a display that the person in front of it closes.    *)
(* event_loop is `loop { .. }` without a break or a return, and nothing in *)
(* it reads Display::is_open: no action of the loop depends on             *)
(* display_open.                                                           *)
(***************************************************************************)
\* the window is closed while the loop is about to start an iteration
CloseDisplay ==
    /\ pc = "detect"
    /\ display_open
    /\ display_open' = FALSE
    /\ UNCHANGED <<widgets, idm, ric, awc, events, messages, pc, overflow_checks,
                   build_log, delivered, issued, event_log, button, now, call,
                   slider, tab, checkbox>>

NextClose ==
    \/ Next
    \/ CloseDisplay

SpecClose == Init /\ [][NextClose]_vars

(***************************************************************************)
(* The same program with a toolkit user that also clones a label           *)
(* (#[derive(Clone)] on LabelWidget) and adds the clone to the root.       *)
(***************************************************************************)
\* #[derive(Clone)]: every field of the source is copied, id and dirty included
Clone(ws, src) == [ws EXCEPT !["copy"] = ws[src]]

\* add_as_child: self.children.push(child)
AddAsChild(ws, parent, child) == [ws EXCEPT ![parent].children = Append(@, child)]

UpdateClone ==
    /\ Dequeue
    /\ \E src \in {"l1", "l3"} :
          /\ widgets[src].alive
          /\ ~widgets["copy"].alive
          /\ widgets' = AddAsChild(Clone(widgets, src), "root", "copy")

NextClone ==
    \/ Next
    \/ UpdateClone

SpecClone == Init /\ [][NextClone]_vars

(***************************************************************************)
(* A long run of the same program: the display delivers one event to each  *)
(* iteration, and the update() of the root's message retargets the text of *)
(* the label `box`, so that every key press costs a rebuild and every      *)
(* cursor move in and out of `view` a tooltip show/hide cycle.             *)
(***************************************************************************)
DetectOneEvent ==
    /\ pc = "detect"
    /\ delivered < MaxLongRun
    /\ \E e \in Events : events' = Append(events, e)
    /\ delivered' = delivered + 1
    /\ pc' = "events"
    /\ UNCHANGED <<widgets, idm, ric, awc, messages, overflow_checks, build_log, issued,
                   event_log, display_open, button, now, call,
                   slider, tab, checkbox>>

UpdateSetTextOfBox ==
    /\ Dequeue
    /\ \E t \in Texts :
          /\ t # widgets["box"].text
          /\ widgets' = SetText(widgets, "box", t)

NextLong ==
    \/ DetectOneEvent
    \/ DispatchEvents
    \/ BuildPass
    \/ OverlayWidgets
    \/ DrawCollection
    \/ UpdateSetTextOfBox
    \/ NextIteration

SpecLong == Init /\ [][NextLong]_vars

(***************************************************************************)
(* Properties                                                              *)
(***************************************************************************)
RECURSIVE Subtree(_, _)
\* the widgets reached from w through children that resolve, w included
Subtree(ws, w) ==
    {w} \cup UNION {Subtree(ws, ws[w].children[i]) :
                      i \in {j \in DOMAIN ws[w].children : Resolves(ws, ws[w].children[j])}}

Reachable == Subtree(widgets, "root")

\* the widgets whose owner still holds them
Live == {w \in Widgets : widgets[w].alive}

\* the widgets that were created and whose owner has dropped them
Dropped == {w \in Widgets \ {"copy"} : ~widgets[w].alive}

ResolvableChildren(p) ==
    {i \in DOMAIN widgets[p].children : Resolves(widgets, widgets[p].children[i])}

\* the entries of the build log written by a parent's child loop
Visits == {i \in DOMAIN build_log : build_log[i].op = "visit"}

ParentOf(c) ==
    CHOOSE p \in Widgets : \E i \in DOMAIN widgets[p].children : widgets[p].children[i] = c

\* the child was dirty when its parent's loop reached it
ReachedDirty(i) == build_log[i].dirty \/ build_log[i].forced

\* the visits, earlier in the same parent's loop, of the siblings of visit j
EarlierSiblings(j) ==
    {i \in Visits : i < j /\ ParentOf(build_log[i].w) = ParentOf(build_log[j].w)}

\* C1: when the root's build has returned, every widget reachable from the root
\* through resolvable children is clean, has a nonzero id, and the instruction
\* collection holds an entry under that id.
AfterBuildReachableWidgetsAreClean ==
    pc = "overlay" =>
        \A w \in Reachable :
            /\ ~widgets[w].dirty
            /\ widgets[w].id # 0
            /\ widgets[w].id \in DOMAIN ric

\* a build pass that found a dirty label below a clean parent and a clean root
DirtyDescendantBelowCleanAncestorsBuilt ==
    /\ pc = "overlay"
    /\ \E i, j, k \in DOMAIN build_log :
          /\ build_log[i].op = "build" /\ build_log[i].w = "root" /\ ~build_log[i].dirty
          /\ build_log[j].op = "build" /\ build_log[j].w = "box" /\ ~build_log[j].dirty
          /\ build_log[k].op = "build" /\ build_log[k].w = "l1" /\ build_log[k].dirty

\* C2: at the end of every frame (build and overlay pass done), the entry cached
\* for a live widget equals what recipe() returns on the widget's current state.
CachedInstructionsEqualRecipe ==
    pc = "draw" =>
        \A w \in Live :
            widgets[w].id \in DOMAIN ric => ric[widgets[w].id] = Recipe(widgets[w])

\* C3: a build pass leaves the id of every widget that already has a nonzero id
\* as it is: a fresh id is fetched only for a widget whose id is 0.
BuildKeepsNonzeroIds ==
    [][pc = "build" =>
          \A w \in Widgets : widgets[w].id # 0 => widgets'[w].id = widgets[w].id]_vars

\* C4: after a build the ids follow the pre-order of the tree: a parent's id is
\* smaller than the id of each of its descendants, and every id in an earlier
\* sibling's subtree is smaller than every id in a later sibling's subtree.
IdsFollowPreOrder ==
    pc = "overlay" =>
        \A p \in Reachable :
            /\ \A d \in Subtree(widgets, p) \ {p} : widgets[p].id < widgets[d].id
            /\ \A i, j \in ResolvableChildren(p) :
                  i < j => \A a \in Subtree(widgets, widgets[p].children[i]),
                              b \in Subtree(widgets, widgets[p].children[j]) :
                                 widgets[a].id < widgets[b].id

\* C5: once the frame that follows a drop is complete, neither collection holds
\* a key of the dropped widget.
DroppedWidgetsHaveNoEntries ==
    pc = "draw" =>
        \A w \in Dropped :
            /\ widgets[w].id \notin DOMAIN ric
            /\ widgets[w].id \notin DOMAIN awc.widgets

\* C6: in a parent's child loop, once a child is dirty when the loop reaches it,
\* every later resolvable sibling is force-marked before its build, is rebuilt
\* in that pass with the position and size handed to it, and is clean when the
\* pass returns; a child with no dirty sibling before it is not force-marked.
LaterSiblingsOfDirtyChildAreRebuilt ==
    pc = "overlay" =>
        \A j \in Visits :
            LET c == build_log[j].w IN
            IF \E i \in EarlierSiblings(j) : ReachedDirty(i)
            THEN /\ build_log[j].forced
                 /\ build_log[j + 1].op = "build"
                 /\ build_log[j + 1].w = c
                 /\ build_log[j + 1].dirty
                 /\ ~widgets[c].dirty
                 /\ widgets[c].position = build_log[j].position
                 /\ widgets[c].size = build_log[j].size
                 /\ ric[widgets[c].id] = Recipe(widgets[c])
            ELSE ~build_log[j].forced

\* a pass in which the first child of the root was dirty, the second clean and
\* the third clean: the third is force-marked because of the first
CleanSiblingsAfterDirtyChildForced ==
    /\ pc = "overlay"
    /\ \E j \in Visits :
          /\ build_log[j].w = "l3" /\ ~build_log[j].dirty /\ build_log[j].forced
          /\ \E i \in EarlierSiblings(j) : build_log[i].w = "box" /\ build_log[i].dirty
          /\ \E i \in EarlierSiblings(j) : build_log[i].w = "view" /\ ~build_log[i].dirty

RECURSIVE SumWidths(_, _)
\* the widths of the resolvable ones among the first n children
SumWidths(kids, n) ==
    IF n = 0 THEN 0
    ELSE SumWidths(kids, n - 1)
           + (IF Resolves(widgets, kids[n]) THEN widgets[kids[n]].size.x ELSE 0)

RECURSIVE SumHeights(_, _)
\* the heights of the resolvable ones among the first n children
SumHeights(kids, n) ==
    IF n = 0 THEN 0
    ELSE SumHeights(kids, n - 1)
           + (IF Resolves(widgets, kids[n]) THEN widgets[kids[n]].size.y ELSE 0)

\* C7: after a build, in a horizontal parent with room for all its children,
\* child k lies at the parent's position plus its offset plus the widths of
\* the resolvable children before k, the other coordinate being the parent's
\* position plus offset; in a vertical parent the same holds with heights.
ChildrenArePlacedOneAfterTheOther ==
    pc = "overlay" =>
        \A p \in Reachable :
            LET kids == widgets[p].children
                off == FieldsOffset(widgets[p])
                base == VAdd(widgets[p].position, off)
            IN /\ (/\ widgets[p].axis = "Horizontal"
                   /\ widgets[p].size.x - 2 * off.x >= SumWidths(kids, Len(kids)))
                  => \A k \in ResolvableChildren(p) :
                        widgets[kids[k]].position
                            = Vec(base.x + SumWidths(kids, k - 1), base.y)
               /\ (/\ widgets[p].axis = "Vertical"
                   /\ widgets[p].size.y - 2 * off.y >= SumHeights(kids, Len(kids)))
                  => \A k \in ResolvableChildren(p) :
                        widgets[kids[k]].position
                            = Vec(base.x, base.y + SumHeights(kids, k - 1))

\* C8: the size a parent's loop hands to a child's build is the component-wise
\* minimum of the child's original_size and the size that remains.
ChildBuiltWithOriginalSizeClamped ==
    \A i \in Visits :
        build_log[i].size
            = VMin(widgets[build_log[i].w].original_size, build_log[i].avail)

LiveWidgetsHaveDistinctIds ==
    \A a, b \in Live :
        (a # b /\ widgets[a].id # 0) => widgets[a].id # widgets[b].id

\* the keys under which build has inserted instructions
NormalEntries == DOMAIN ric \cap {issued[i] : i \in DOMAIN issued}

\* the keys under which the overlay pass has inserted instructions
OverlayEntries == DOMAIN ric \cap DOMAIN awc.widgets

HandedOutKeys == (awc.counter + 1) .. UsizeMax

DirtyOverlayKeys ==
    {k \in DOMAIN awc.widgets :
        Resolves(widgets, awc.widgets[k].widget) /\ widgets[awc.widgets[k].widget].dirty}

\* C13: the overlay pass gives every entry whose widget resolves and is dirty
\* the stored position and size, leaves it clean and puts its current recipe
\* under the widget's id, which is the entry's key; it changes no other widget,
\* no other key of the instruction collection and not the absolute collection.
OverlayPassRebuildsDirtyEntriesOnly ==
    [][pc = "overlay" =>
          /\ \A k \in DirtyOverlayKeys :
                LET e == awc.widgets[k]
                    after == widgets'[e.widget]
                IN /\ after.position = e.position
                   /\ after.size = e.size
                   /\ ~after.dirty
                   /\ after.id = k
                   /\ k \in DOMAIN ric'
                   /\ ric'[k] = Recipe(after)
          /\ \A w \in Widgets :
                (\A k \in DirtyOverlayKeys : awc.widgets[k].widget # w)
                    => widgets'[w] = widgets[w]
          /\ DOMAIN ric' = DOMAIN ric \cup DirtyOverlayKeys
          /\ \A k \in DOMAIN ric \ DirtyOverlayKeys : ric'[k] = ric[k]
          /\ awc' = awc]_vars

\* the overlay pass has processed the shown tooltip widget: it lies where the
\* cursor was when it was shown and its recipe is in the collection
OverlayPassProcessedTooltip ==
    /\ pc = "draw"
    /\ \E k \in DOMAIN awc.widgets :
          LET e == awc.widgets[k] IN
          /\ Resolves(widgets, e.widget)
          /\ widgets[e.widget].id = k
          /\ widgets[e.widget].position = e.position
          /\ e.position # Vec(0, 0)
          /\ ~widgets[e.widget].dirty
          /\ k \in DOMAIN ric
          /\ ric[k] = Recipe(widgets[e.widget])

\* the keys a step adds to the AbsoluteWidgetCollection
NewKeys == DOMAIN awc'.widgets \ DOMAIN awc.widgets

ResolvableKids(p) == SelectSeq(widgets[p].children, LAMBDA c : Resolves(widgets, c))

IsChildOf(c, p) == \E i \in DOMAIN widgets[p].children : widgets[p].children[i] = c

\* the visits that the child loop of p wrote to a build log, in order
VisitsOfChildren(log, p) == SelectSeq(log, LAMBDA e : e.op = "visit" /\ IsChildOf(e.w, p))

\* the calls of build on p in a build log
BuildsOf(log, p) == SelectSeq(log, LAMBDA e : e.op = "build" /\ e.w = p)

\* the running position after a child of the given size
Advance(axis, position, size) ==
    IF axis = "Horizontal" THEN Vec(position.x + size.x, position.y)
    ELSE Vec(position.x, position.y + size.y)

\* the on_event calls, in a log, on the children of p
CallsOnChildren(log, p) == SelectSeq(log, LAMBDA c : IsChildOf(c.w, p))

\* the on_event calls, in a log, in which p ran its loop over the children:
\* a label's on_event is empty, a root and a tooltip view forward CursorMoved
ForwardingCalls(log, p) ==
    SelectSeq(log, LAMBDA c : /\ c.w = p
                              /\ widgets[p].kind \in {"root", "tooltip_view"}
                              /\ c.event.kind = "CursorMoved")

RECURSIVE OneCallPerKid(_, _)
\* for each of the calls, in order, one call with its event on each of the kids
OneCallPerKid(calls, kids) ==
    IF calls = << >> THEN << >>
    ELSE [i \in 1 .. Len(kids) |-> [w |-> kids[i], event |-> Head(calls).event]]
            \o OneCallPerKid(Tail(calls), kids)

\* the widgets a build pass found dirty and rebuilt
RebuiltIn(log) == {log[i].w : i \in {j \in DOMAIN log : log[j].op = "build" /\ log[j].dirty}}

\* C15: a child reference that does not resolve is skipped by build and by
\* on_event: the child loop of every built widget visits exactly its
\* resolvable children, in child order, the first at the widget's position
\* plus offset and each next one right after the one before, so that a skipped
\* child takes no room; ids are issued and instructions replaced for rebuilt
\* widgets only; and a widget that forwards an event calls on_event once on
\* each resolvable child, in child order, and on no other.
UnresolvableChildrenAreSkipped ==
    [][/\ pc = "build" /\ pc' = "overlay" =>
             /\ \A p \in Reachable :
                   LET vs == VisitsOfChildren(build_log', p)
                       b == BuildsOf(build_log', p)
                   IN /\ Len(b) = 1
                      /\ [i \in 1 .. Len(vs) |-> vs[i].w] = ResolvableKids(p)
                      /\ Len(vs) > 0 =>
                            vs[1].position = VAdd(b[1].position, FieldsOffset(widgets[p]))
                      /\ \A i \in 1 .. Len(vs) - 1 :
                            vs[i + 1].position
                                = Advance(widgets[p].axis, vs[i].position, vs[i].size)
             /\ \A i \in DOMAIN build_log' : build_log'[i].w \in Reachable
             /\ Len(issued') - Len(issued) = Cardinality(RebuiltIn(build_log'))
             /\ \A w \in Widgets \ RebuiltIn(build_log') : widgets'[w] = widgets[w]
             /\ \A k \in DOMAIN ric \ {widgets[w].id : w \in RebuiltIn(build_log')} :
                   k \in DOMAIN ric' /\ ric'[k] = ric[k]
             /\ DOMAIN ric' \ DOMAIN ric
                   \subseteq {issued'[i] : i \in Len(issued) + 1 .. Len(issued')}
       /\ pc = "events" =>
             /\ \A p \in Reachable :
                   CallsOnChildren(event_log', p)
                       = OneCallPerKid(ForwardingCalls(event_log', p), ResolvableKids(p))
             /\ \A i \in DOMAIN event_log' : event_log'[i].w \in Reachable
             /\ \A w \in Widgets \ Live : widgets'[w] = widgets[w]]_vars

\* the root's first child has been dropped: the event went to the two other
\* children and the build placed the second child where the first one was
DroppedFirstChildSkipped ==
    /\ pc = "overlay"
    /\ ~Resolves(widgets, "box")
    /\ [i \in 1 .. Len(CallsOnChildren(event_log, "root")) |->
            CallsOnChildren(event_log, "root")[i].w] = <<"view", "l3">>
    /\ [i \in 1 .. Len(VisitsOfChildren(build_log, "root")) |->
            VisitsOfChildren(build_log, "root")[i].w] = <<"view", "l3">>
    /\ VisitsOfChildren(build_log, "root")[1].position = Vec(0, 0)

\* the on_event calls, in a log, on the root
CallsOnRoot(log) == SelectSeq(log, LAMBDA c : c.w = "root")

\* C16: in every iteration the queued events are handed to the root's on_event
\* once each, oldest first, and the queue is left empty; then build runs once
\* on the root with position (0,0) and the display's size; then the overlay
\* pass; then draw_collection; and no message leaves the queue, that is no
\* update() runs, before draw_collection has returned.
EventLoopStepsInOrder ==
    [][/\ pc = "detect" => pc' = "events" /\ messages' = messages
       /\ pc = "events" =>
             /\ pc' = "build"
             /\ events' = << >>
             /\ CallsOnRoot(event_log')
                   = [i \in 1 .. Len(events) |-> [w |-> "root", event |-> events[i]]]
             /\ Len(messages') >= Len(messages)
             /\ SubSeq(messages', 1, Len(messages)) = messages
       /\ pc = "build" =>
             /\ pc' \in {"overlay", "panicked"}
             /\ events = << >>
             /\ messages' = messages
             /\ Len(BuildsOf(build_log', "root")) = 1
             /\ build_log'[1].op = "build"
             /\ build_log'[1].w = "root"
             /\ build_log'[1].position = Vec(0, 0)
             /\ build_log'[1].avail = DisplaySize
       /\ pc = "overlay" => pc' = "draw" /\ messages' = messages
       /\ pc = "draw" =>
             /\ pc' = "update"
             /\ messages' = messages
             /\ widgets' = widgets /\ ric' = ric /\ awc' = awc
       /\ messages' # messages /\ pc # "events" =>
             /\ pc = "update"
             /\ pc' = "update"
             /\ messages' = Tail(messages)
       /\ pc = "update" /\ pc' # "update" => pc' = "detect" /\ messages = << >>]_vars

\* two different events of one iteration have been handed to the root and
\* the build has run, while the message of one of them waits in the queue
TwoEventsDeliveredAndBuilt ==
    /\ pc = "overlay"
    /\ Len(CallsOnRoot(event_log)) = 2
    /\ CallsOnRoot(event_log)[1].event # CallsOnRoot(event_log)[2].event
    /\ events = << >>
    /\ messages # << >>
    /\ build_log[1].w = "root"

\* C17: messages are enqueued only while the events are dispatched; each
\* leaves the queue once, the oldest first, in the update stage that follows
\* this iteration's draw_collection, and the iteration ends with an empty
\* queue; an update() changes no instruction, and a widget of the tree that it
\* left dirty stays dirty until the build of the following iteration, which
\* rebuilds it and stores its recipe for that iteration's draw.
MessagesUpdatedAfterDrawInOrder ==
    [][/\ messages' # messages =>
             \/ /\ pc = "events"
                /\ Len(messages') > Len(messages)
                /\ SubSeq(messages', 1, Len(messages)) = messages
             \/ /\ pc = "update"
                /\ pc' = "update"
                /\ messages' = Tail(messages)
       /\ pc = "update" => ric' = ric /\ build_log' = build_log
       /\ pc = "update" /\ pc' # "update" => pc' = "detect" /\ messages = << >>
       /\ pc = "draw" => pc' = "update"
       /\ pc \in {"update", "detect", "events"} =>
             \A w \in Live : widgets[w].dirty /\ widgets'[w].alive => widgets'[w].dirty
       /\ pc = "build" /\ pc' = "overlay" =>
             \A w \in Reachable :
                widgets[w].dirty =>
                   /\ w \in RebuiltIn(build_log')
                   /\ ~widgets'[w].dirty
                   /\ widgets'[w].id \in DOMAIN ric'
                   /\ ric'[widgets'[w].id] = Recipe(widgets'[w])]_vars

\* a message of the first iteration has set a new text on a label, and the
\* build of the second iteration has rebuilt the label with that text
TextSetByUpdateBuiltInNextIteration ==
    /\ pc = "overlay"
    /\ delivered = 1
    /\ widgets["l2"].text = "1"
    /\ "l2" \in RebuiltIn(build_log)
    /\ ric[widgets["l2"].id] = Recipe(widgets["l2"])
    /\ Cardinality(RebuiltIn(build_log)) < Cardinality(Reachable)

\* C18: the event loop repeats until the display reports closed and then
\* stops: once the display is closed no further on_event, build,
\* draw_collection or update call is made.
NoCallsAfterDisplayClosed ==
    [][~display_open =>
          UNCHANGED <<widgets, idm, ric, awc, events, messages, pc, build_log, event_log>>]_vars

\* C19: the root forwards every event it receives, unchanged, to every
\* resolvable child: for each on_event call on the root there is, in order,
\* one call with the same event on each resolvable child.
RootForwardsEveryEvent ==
    [][pc = "events" =>
          CallsOnChildren(event_log', "root")
              = OneCallPerKid(CallsOnRoot(event_log'), ResolvableKids("root"))]_vars

\* the last three on_event calls on the button are CursorMoved to a point
\* inside it, ButtonPressed(Left) and ButtonReleased(Left)
ClickJustCompleted(log) ==
    /\ Len(log) >= 3
    /\ log[Len(log) - 2].event.kind = "CursorMoved"
    /\ IsCursorInside(button, Vec(log[Len(log) - 2].event.x, log[Len(log) - 2].event.y))
    /\ log[Len(log) - 1].event = ButtonPressed("Left")
    /\ log[Len(log)].event = ButtonReleased("Left")

\* C20: a clickable button with both messages that receives CursorMoved to a
\* point inside it, ButtonPressed(Left) and ButtonReleased(Left) enqueues
\* exactly one message on the release: the long-press message when at least
\* ON_LONG_PRESS_TIME ms have passed since the press, the press message when
\* fewer have.
ClickEnqueuesPressOrLongPress ==
    [][(/\ event_log' # event_log
        /\ ClickJustCompleted(event_log')
        /\ button.is_clickable /\ button.on_press /\ button.on_long_press)
       => LET pressed_at == event_log'[Len(event_log') - 1].at
              released == event_log'[Len(event_log')]
              expected == IF released.at - pressed_at >= ON_LONG_PRESS_TIME
                          THEN "on_long_press" ELSE "on_press"
          IN messages' = Append(messages, [message |-> expected,
                                           event |-> released.event])]_vars

\* a click held for exactly the threshold has enqueued the long-press message
\* and nothing else
LongPressAtThreshold ==
    /\ ClickJustCompleted(event_log)
    /\ button.is_clickable /\ button.on_press /\ button.on_long_press
    /\ event_log[Len(event_log)].at - event_log[Len(event_log) - 1].at = ON_LONG_PRESS_TIME
    /\ messages = <<[message |-> "on_long_press", event |-> ButtonReleased("Left")]>>

\* C21: is_cursor_inside of a button, tab, text box and check box is true
\* exactly when position.x <= p.x <= position.x + size.x and
\* position.y <= p.y <= position.y + size.y.
HitTestIsInclusiveBox ==
    call.op = "is_cursor_inside" =>
        call.result = (/\ button.position.x <= call.point.x
                       /\ call.point.x <= button.position.x + button.size.x
                       /\ button.position.y <= call.point.y
                       /\ call.point.y <= button.position.y + button.size.y)

\* at position (10,10) with size (20,20) the corner (30,30) has been found inside
FarCornerFoundInside ==
    /\ call.op = "is_cursor_inside"
    /\ button.position = Vec(10, 10)
    /\ button.size = Vec(20, 20)
    /\ call.point = Vec(30, 30)
    /\ call.result

\* C22: set_size and set_original_size leave the widget dirty, whatever the
\* flag was before and also when the new size equals the old one; set_position
\* and set_offset leave the flag as it was.
SizeSettersMarkDirtyOthersDoNot ==
    [][pc = "update" /\ messages' # messages =>
          LET before == widgets[call'.w]
              after == widgets'[call'.w]
          IN /\ call'.op = "set_size" => after.dirty /\ after.size = call'.value
             /\ call'.op = "set_original_size" =>
                   after.dirty /\ after.original_size = call'.value
             /\ call'.op \in {"set_position", "set_offset"} =>
                   after.dirty = before.dirty]_vars

\* set_size has been called on a clean widget with the size it already had,
\* and the widget is dirty
SameSizeSetOnCleanWidget ==
    /\ pc = "update"
    /\ call.op = "set_size"
    /\ call.w = "l2"
    /\ call.value = Vec(2, 1)
    /\ widgets["l2"].dirty
    /\ ~widgets["l3"].dirty
    /\ ~widgets["view"].dirty

\* the keys of the instruction collection that a widget has held or holds
EntriesOf(before, after, collection) == {before.id, after.id} \cap DOMAIN collection

\* C23: a label that is built has exactly one entry in the instruction
\* collection, a DrawRect followed by a DrawText with the label's text;
\* set_text makes the label dirty, and after the next build the label still has
\* exactly one entry, no entry under its old id, and the DrawText of the entry
\* carries the new text.
LabelHasOneEntryWithItsText ==
    [][/\ pc = "build" /\ pc' = "overlay" =>
             \A w \in RebuiltIn(build_log') :
                 widgets'[w].kind = "label" =>
                     LET entry == ric'[widgets'[w].id]
                     IN /\ Cardinality(EntriesOf(widgets[w], widgets'[w], ric')) = 1
                        /\ widgets'[w].id \in DOMAIN ric'
                        /\ Len(entry) = 2
                        /\ entry[1].op = "DrawRect"
                        /\ entry[2].op = "DrawText"
                        /\ entry[2].string = widgets[w].text
       /\ pc = "update" /\ messages' # messages =>
             \A w \in Widgets :
                 (widgets[w].kind = "label" /\ widgets'[w].text # widgets[w].text) =>
                     widgets'[w].dirty]_vars

\* the label l1, built with "0" in the first pass, has been given the text "1"
\* and has been built again: one entry more than widgets would be a stale one
RetextedLabelBuiltAgain ==
    /\ pc = "overlay"
    /\ Dropped = {}
    /\ widgets["l1"].text = "1"
    /\ "l1" \in RebuiltIn(build_log)
    /\ widgets["l1"].id > 6
    /\ ric[widgets["l1"].id][2].string = "1"
    /\ 3 \notin DOMAIN ric

\* the children of the grid
GridChildrenOf(g) == widgets[g].children

\* the cell that the child with index i (from 0) of the grid g belongs in
CellOf(g, i) ==
    LET wd == widgets[g]
        cell == GridCellSize(wd.axis, wd.cross_count, Len(wd.children), wd.size)
    IN [position |-> VAdd(wd.position, GridCellOffset(wd.axis, wd.cross_count, i, cell)),
        size |-> cell]

OtherKeysSame(a, b, id) ==
    /\ DOMAIN a \ {id} = DOMAIN b \ {id}
    /\ \A k \in DOMAIN a \ {id} : a[k] = b[k]

\* C25: remove(id) on an id that is not in the collection leaves the
\* collection unchanged, a second remove(id) right after a first changes
\* nothing, the id is not in the collection afterwards, and the entries under
\* other keys are never affected.
RemoveIsIdempotentAndLocal ==
    [][call'.op = "remove" =>
          /\ call'.id \notin DOMAIN ric'
          /\ call'.id \notin DOMAIN ric => ric' = ric
          /\ (call.op = "remove" /\ call.id = call'.id) => ric' = ric
          /\ OtherKeysSame(ric, ric', call'.id)]_vars

\* remove has been called with an id that is not in a collection of two entries
RemovedAbsentIdAmongOthers ==
    /\ call.op = "remove"
    /\ call.was = << >>
    /\ DOMAIN ric = {1, UsizeMax}

\* C26: after replace_or_insert(id, v) the collection maps id to v, whether
\* the id was there before or not; the entries under other keys are
\* unchanged; iteration has exactly one entry for id and goes by strictly
\* ascending key.
ReplaceOrInsertMapsIdToValue ==
    [][call'.op = "replace_or_insert" =>
          LET it == Iter(ric')
          IN /\ call'.id \in DOMAIN ric'
             /\ ric'[call'.id] = call'.instructions
             /\ OtherKeysSame(ric, ric', call'.id)
             /\ Cardinality({i \in DOMAIN it : it[i].key = call'.id}) = 1
             /\ \A i \in DOMAIN it : it[i].instructions = ric'[it[i].key]
             /\ Len(it) = Cardinality(DOMAIN ric')
             /\ \A i, j \in DOMAIN it : i < j => it[i].key < it[j].key]_vars

\* the instructions under an id that was there have been replaced by others
ReplacedExistingEntry ==
    /\ call.op = "replace_or_insert"
    /\ call.was # << >>
    /\ call.was[1] # call.instructions
    /\ ric[call.id] = call.instructions
    /\ call.id = 2
    /\ DOMAIN ric = {1, 2, UsizeMax}

\* the four modifiers
Modifiers == {"shift", "control", "alt", "logo"}

\* C27: matches(required) is true exactly when every modifier that is true in
\* required is true in self; so every state matches the all-false requirement
\* and every state matches itself.
MatchesIffRequiredModifiersHeld ==
    call.op = "matches" =>
        /\ call.result = (\A m \in Modifiers : call.required[m] => call.self[m])
        /\ (\A m \in Modifiers : ~call.required[m]) => call.result
        /\ call.required = call.self => call.result

\* shift and control are held, shift alone is required, and the states match
ExtraModifierHeldStillMatches ==
    /\ call.op = "matches"
    /\ call.self = [shift |-> TRUE, control |-> TRUE, alt |-> FALSE, logo |-> FALSE]
    /\ call.required = [shift |-> TRUE, control |-> FALSE, alt |-> FALSE, logo |-> FALSE]
    /\ call.result

\* C28: after a build pass every widget that the walk reached has, as its
\* stored position, the position that the walk handed to its build in that
\* pass, also a clean child of a label that was moved because a sibling in
\* front of the label was dirty.
StoredPositionsAreWalkPositions ==
    pc = "overlay" =>
        \A i \in DOMAIN build_log :
            build_log[i].op = "build" =>
                widgets[build_log[i].w].position = build_log[i].position

CleanPrefix(p) ==
    {widgets[p].children[i] : i \in
        {j \in ResolvableChildren(p) :
            \A k \in ResolvableChildren(p) : k <= j => ~widgets[widgets[p].children[k]].dirty}}

SliderIndexStaysInRange ==
    /\ ~slider.panicked
    /\ 0 <= slider.slider_index
    /\ slider.slider_index < Len(slider.slider_positions)

\* the values range.0 + k * step that are not above range.1
SteppedValues(sl) ==
    {v \in sl.range[1] .. sl.range[2] : (v - sl.range[1]) % sl.step = 0}

\* C32: after a ButtonReleased(Left) handled while the slider is pressed,
\* slider_value is a stepped value of the range and is the value of the
\* position at slider_index, is_pressed is false and the slider is dirty; one
\* on_slide message has been enqueued when the index changed, none when it
\* did not.
ReleaseLeavesSliderOnAStep ==
    [][(/\ event_log' # event_log
        /\ event_log'[Len(event_log')].event = ButtonReleased("Left")
        /\ slider.is_pressed)
       => /\ ~slider'.panicked
          /\ slider'.slider_value \in SteppedValues(slider')
          /\ slider'.slider_index < Len(slider'.slider_positions)
          /\ slider'.slider_value =
                 slider'.slider_positions[slider'.slider_index + 1].slider_value
          /\ ~slider'.is_pressed
          /\ slider'.dirty
          /\ messages' = IF slider'.slider_index # slider.slider_index /\ slider.on_slide
                         THEN Append(messages, [message |-> "on_slide",
                                                event |-> ButtonReleased("Left")])
                         ELSE messages]_vars

\* the event that the step hands to a widget, logged as the last entry
Handled(e) ==
    /\ event_log' # event_log
    /\ event_log'[Len(event_log')].event = e

\* the indices of the presses and releases of the left button in a log
Clicks(log) ==
    {i \in DOMAIN log : log[i].event \in {ButtonPressed("Left"), ButtonReleased("Left")}}

\* the last press or release of the left button in a non-empty set of them
LastClick(log) == CHOOSE i \in Clicks(log) : \A j \in Clicks(log) : j <= i

\* where the moves logged before entry i have left the cursor
CursorBefore(log, i) ==
    LET moves == {j \in 1 .. i - 1 : log[j].event.kind = "CursorMoved"}
    IN IF moves = {} THEN Vec(-1, -1)
       ELSE LET j == CHOOSE k \in moves : \A m \in moves : m <= k
            IN Vec(log[j].event.x, log[j].event.y)

\* the log holds a press of the left button on the clickable button with the
\* cursor inside it, and no release of the left button after that press
PressedInsideSinceRelease(log) ==
    \E i \in DOMAIN log :
        /\ log[i].event = ButtonPressed("Left")
        /\ log[i].is_clickable
        /\ IsCursorInside(button, CursorBefore(log, i))
        /\ \A j \in i + 1 .. Len(log) : log[j].event # ButtonReleased("Left")

\* C33: a release of the left button that finds the button pressed and the
\* cursor outside it enqueues no message and resets is_pressed; a release
\* with no press since the release before it enqueues nothing either.
ReleaseOutsideEnqueuesNothing ==
    [][Handled(ButtonReleased("Left")) =>
          /\ (button.is_pressed /\ ~IsCursorInside(button, button.cursor_pos))
                => messages' = messages /\ ~button'.is_pressed
          /\ (Clicks(event_log) # {}
                /\ event_log[LastClick(event_log)].event = ButtonReleased("Left"))
                => messages' = messages /\ ~button'.is_pressed]_vars

\* the button was pressed inside, the cursor left it, and the left button
\* was released twice
ReleasedTwiceOutside ==
    /\ Len(event_log) = 5
    /\ event_log[1].event = CursorMoved(Vec(0, 0))
    /\ event_log[2].event = ButtonPressed("Left")
    /\ event_log[2].is_clickable
    /\ event_log[3].event = CursorMoved(Vec(3, 2))
    /\ event_log[4].event = ButtonReleased("Left")
    /\ event_log[5].event = ButtonReleased("Left")
    /\ button.on_press
    /\ button.on_long_press
    /\ ~button.is_pressed
    /\ messages = << >>

\* is_clickable was false at every logged call and is false now
NeverClickable ==
    /\ ~button.is_clickable
    /\ \A i \in DOMAIN event_log : ~event_log[i].is_clickable

\* C34: a step enqueues at most one message, and one only when it handles a
\* release of the left button after a press of the left button on the
\* clickable button with the cursor inside and with no release in between;
\* the button is pressed only after such a press; a button that was never
\* clickable, or that has neither message, is not pressed and has enqueued
\* nothing.
ReleaseEnqueuesAtMostOnePressedInside ==
    [][/\ \/ messages' = messages
          \/ /\ Handled(ButtonReleased("Left"))
             /\ Len(messages') = Len(messages) + 1
             /\ SubSeq(messages', 1, Len(messages)) = messages
             /\ PressedInsideSinceRelease(event_log)
             /\ button.is_pressed
       /\ button'.is_pressed => PressedInsideSinceRelease(event_log')
       /\ (NeverClickable' \/ (~button.on_press /\ ~button.on_long_press))
             => ~button'.is_pressed /\ messages' = << >>]_vars

\* a button that was made clickable, pressed and released has enqueued one
\* message, and a second release has added none
OneMessageForTwoReleases ==
    /\ Len(event_log) = 5
    /\ event_log[1].event.kind = "set_is_clickable"
    /\ ~event_log[1].is_clickable
    /\ event_log[2].event = CursorMoved(Vec(0, 0))
    /\ event_log[3].event = ButtonPressed("Left")
    /\ event_log[4].event = ButtonReleased("Left")
    /\ event_log[5].event = ButtonReleased("Left")
    /\ Len(messages) = 1

\* C35: on a tab with both messages, a release of the left button that
\* finds the tab pressed and the cursor inside it enqueues exactly one
\* message, whatever the time since the press: on_press when the press was
\* shorter than the threshold, tab_moved when it was longer, one of the two
\* at exactly the threshold; is_pressed is false afterwards.
TabReleaseEnqueuesExactlyOne ==
    [][(/\ Handled(ButtonReleased("Left"))
        /\ tab.is_pressed
        /\ TabIsCursorInside(tab, tab.cursor_pos)
        /\ tab.on_press
        /\ tab.tab_moved)
       => LET held == event_log'[Len(event_log')].at - tab.click_time
          IN /\ \E m \in {"on_press", "tab_moved"} :
                   /\ messages' = Append(messages, [message |-> m,
                                                    event |-> ButtonReleased("Left")])
                   /\ held < TAB_ON_LONG_PRESS_TIME => m = "on_press"
                   /\ held > TAB_ON_LONG_PRESS_TIME => m = "tab_moved"
             /\ ~tab'.is_pressed]_vars

\* C36: a press of the left button with the cursor inside the check box
\* negates is_checked, makes the check box dirty and enqueues one on_change
\* message when one is configured; with the cursor outside it changes
\* nothing; the second of two presses inside in a row brings is_checked back
\* to what the first found.
PressInsideTogglesCheckBox ==
    [][Handled(ButtonPressed("Left")) =>
          IF IsMouseInsideCheckBox(checkbox)
          THEN /\ checkbox'.is_checked = ~checkbox.is_checked
               /\ checkbox'.dirty
               /\ messages' = IF checkbox.on_change
                              THEN Append(messages, [message |-> "on_change",
                                                     event |-> ButtonPressed("Left")])
                              ELSE messages
               /\ (/\ event_log # << >>
                   /\ event_log[Len(event_log)].event = ButtonPressed("Left"))
                     => checkbox'.is_checked = event_log[Len(event_log)].is_checked
          ELSE /\ checkbox' = checkbox
               /\ messages' = messages]_vars

\* a clean check box with a message was pressed twice with the cursor inside
CheckBoxPressedTwiceInside ==
    /\ Len(event_log) = 4
    /\ event_log[1].event = CursorMoved(Vec(0, 0))
    /\ event_log[2].event.kind = "set_dirty"
    /\ event_log[3].event = ButtonPressed("Left")
    /\ event_log[4].event = ButtonPressed("Left")
    /\ checkbox.on_change
    /\ checkbox.dirty
    /\ checkbox.is_checked = event_log[3].is_checked
    /\ Len(messages) = 2

\* the keys of the AbsoluteWidgetCollection under which widget w is stored
KeysOf(a, w) == {k \in DOMAIN a.widgets : a.widgets[k].widget = w}

\* the tooltip widget has at most one entry, and its id is 0 exactly when it
\* has none
TipHasItsEntry(ws, a) ==
    /\ Cardinality(KeysOf(a, "tip")) <= 1
    /\ ws["tip"].id = 0 <=> KeysOf(a, "tip") = {}

\* what the dispatch of one CursorMoved to the tooltip view has to bring about
TipShownOrHidden ==
    LET e == events[1]
        view == widgets["view"]
        inside == IsMouseInside([view EXCEPT !.cursor_pos = Vec(e.x, e.y)])
        id == widgets["tip"].id
    IN IF inside
       THEN /\ Cardinality(KeysOf(awc', "tip")) = 1
            /\ KeysOf(awc, "tip") # {} => awc' = awc
       ELSE /\ KeysOf(awc', "tip") = {}
            /\ widgets'["tip"].id = 0
            /\ id \notin DOMAIN ric'
            /\ id \notin DOMAIN awc'.widgets

BuildNeverGoesBelowZero ==
    [][pc = "build" =>
          /\ pc' = "overlay"
          /\ overflow_checks' = overflow_checks
          /\ \A i \in DOMAIN build_log' :
                LET e == build_log'[i]
                IN /\ e.avail.x <= DisplaySize.x
                   /\ e.avail.y <= DisplaySize.y
                   /\ e.size.x <= e.avail.x
                   /\ e.size.y <= e.avail.y]_vars

====
